---- MODULE Spec2Model ----
(***************************************************************************)
(* HyperTrack: the wallet state tracker (core/hyperliquid_tracker.py), the *)
(* follow decision engine (core/strategy_engine.py), the execution client  *)
(* (core/lighter_trader.py) and the store (database/db_manager.py).        *)
(*                                                                         *)
(* Quantities.  The mirror venue counts a position in base units           *)
(* (place_market_order converts a size with int(size * PRICE_SCALE)).  The *)
(* engine's Decimal sizes are kept in HALVES of a base unit, so that the   *)
(* 50% reduction of a DECREASE is exact; money is in whole dollars.        *)
(***************************************************************************)
EXTENDS Integers, Sequences, FiniteSets, TLC

\* ------------------------------------------------------------------ bounds
\* largest position (base units, either side) the mirror venue accepts
MaxHeld == 1
\* the balance cache interval (_balance_cache_seconds = 60), in clock ticks
BalanceCacheTicks == 1

\* ------------------------------------------------------------ value sets
\* source-wallet addresses as events carry them (one in mixed case); the
\* store keeps addresses lower-cased
Addrs == {"0xA", "0xb"}
\* str.lower()
Lower(a) == IF a = "0xA" THEN "0xa" ELSE a
Wallets == {Lower(a) : a \in Addrs}
\* symbols are upper-case throughout (symbol.upper() is the identity on them);
\* LighterTrader.MARKET_INDEX maps BTC (and ETH, left out) and does not map SOL
Symbols == {"BTC", "SOL"}
MARKET_INDEX == {"BTC"}
EventTypes == {"OPEN", "CLOSE", "INCREASE", "DECREASE", "FLIP", "UNKNOWN"}
Sides == {"LONG", "SHORT"}
\* the on_wallet_event calls that can be in flight together
Tasks == {1, 2}

\* the PositionEvent fields the engine reads; it reads side only for OPEN and
\* INCREASE (_calculate_open_params), so the other kinds come with one side
Events == {e \in [event_type : EventTypes, symbol : Symbols, side : Sides,
                  wallet_address : Addrs] :
              e.event_type \in {"OPEN", "INCREASE"} \/ e.side = "LONG"}
NoEvent == [event_type |-> "UNKNOWN", symbol |-> "", side |-> "LONG",
            wallet_address |-> ""]

\* balances the mirror venue may report, and mid prices of its order book
BalanceValues == {0, 1000}
\* what get_account_info returns: an AccountInfo, or None when the account
\* query failed on every attempt
NoAccount == [ok |-> FALSE, available_balance |-> 0]
AccountReplies == {[ok |-> TRUE, available_balance |-> b] : b \in BalanceValues}
                      \cup {NoAccount}
PriceValues == {50, 100}
\* max_position_usd of each wallets row (add_wallet sets it once): 0 stands
\* for NULL
MaxPositionOf(w) == IF w = "0xa" THEN 50 ELSE 0

\* StrategyEngine.__init__: default_max_position_usd
default_max_position_usd == 1000

VARIABLES
    wallets,        \* store, table wallets: address -> row or NoRow
    positions,      \* store, table positions: set of rows
    held,           \* mirror venue: signed position per market, base units
    my_balance,     \* StrategyEngine._my_balance
    balance_age,    \* ticks since _balance_updated_at, capped
    task            \* the on_wallet_event calls in flight

engine_vars == <<wallets, positions, held, my_balance, balance_age, task>>

VARIABLES
    tk_running,     \* HyperliquidTracker._running
    tk_pc,          \* where start() is: "new", "init", "poll", "sleep", "exited"
    tk_idx,         \* position of the for loop in wallet_addresses
    last_states,    \* HyperliquidTracker._last_states
    last_poll,      \* what the latest pass of the for loop over one wallet did
    cycle           \* what the current polling cycle has done so far

tracker_vars == <<tk_running, tk_pc, tk_idx, last_states, last_poll, cycle>>

VARIABLES
    balance_log,    \* what the _get_my_balance calls did, as the cache check records it
    rt,             \* the call of a LighterTrader operation in progress
    tr,             \* a LighterTrader placing and closing orders
    pl              \* HyperTrack: the tracker wired to _on_wallet_event, stop()

vars == <<wallets, positions, held, my_balance, balance_age, task,
          tk_running, tk_pc, tk_idx, last_states, last_poll, cycle,
          balance_log, rt, tr, pl>>

\* ---------------------------------------------------------------- tracker
\* largest |szi| a snapshot reports
MaxSize == 2
Sizes == (-MaxSize)..MaxSize
\* the szi a snapshot may report for a coin: any size for BTC, flat or one
\* unit long for the others
SizesOf(coin) == IF coin = "BTC" THEN Sizes ELSE {0, 1}

\* HyperliquidTracker.__init__: wallet_addresses, lower-cased
wallet_addresses == <<"0xa", "0xb">>
Tracked == {wallet_addresses[i] : i \in 1..Len(wallet_addresses)}

\* the coins a wallet's assetPositions may list: the second wallet trades one
CoinsOf(address) == IF address = "0xa" THEN Symbols ELSE {"BTC"}

\* WalletState.positions as _positions_to_dict sees it: coin -> szi, for the
\* coins listed.  NoState is the absent entry of _last_states.
NoState == [has |-> FALSE, pos |-> <<>>]
Snapshots(address) ==
    {[has |-> TRUE, pos |-> f] :
        f \in {g \in UNION {[D -> Sizes] : D \in SUBSET CoinsOf(address)} :
                  \A c \in DOMAIN g : g[c] \in SizesOf(c)}}

\* _compare_position, lines 207-208: szi of the entry, 0 without an entry
SizeIn(state, symbol) ==
    IF state.has /\ symbol \in DOMAIN state.pos THEN state.pos[symbol] ELSE 0

\* _determine_event_type comparing the signed sizes instead of the magnitudes
M_determine_event_type_signed(old_size, new_size) ==
    IF old_size = 0 /\ new_size # 0 THEN "OPEN"
    ELSE IF old_size # 0 /\ new_size = 0 THEN "CLOSE"
    ELSE IF (old_size > 0 /\ new_size < 0) \/ (old_size < 0 /\ new_size > 0) THEN "FLIP"
    ELSE IF new_size > old_size THEN "INCREASE"
    ELSE IF new_size < old_size THEN "DECREASE"
    ELSE "UNKNOWN"

\* HyperliquidTracker._determine_event_type
determine_event_type(old_size, new_size) ==
    IF old_size = 0 /\ new_size # 0 THEN "OPEN"
    ELSE IF old_size # 0 /\ new_size = 0 THEN "CLOSE"
    ELSE IF (old_size > 0 /\ new_size < 0) \/ (old_size < 0 /\ new_size > 0) THEN "FLIP"
    ELSE IF (IF new_size < 0 THEN -new_size ELSE new_size)
              > (IF old_size < 0 THEN -old_size ELSE old_size) THEN "INCREASE"
    ELSE IF (IF new_size < 0 THEN -new_size ELSE new_size)
              < (IF old_size < 0 THEN -old_size ELSE old_size) THEN "DECREASE"
    ELSE "UNKNOWN"

\* _compare_position with the side always taken from the new size
M_EventSide_new_only(old_size, new_size) ==
    IF new_size > 0 THEN "LONG" ELSE "SHORT"

\* _compare_position, lines 218-224: the side of the event
EventSide(old_size, new_size) ==
    IF new_size > 0 THEN "LONG"
    ELSE IF new_size < 0 THEN "SHORT"
    ELSE IF old_size > 0 THEN "LONG" ELSE "SHORT"

\* _compare_position without its early return
M_Changed_always(old_size, new_size) == TRUE

\* _compare_position, lines 211-212: no event when the sizes are equal
Changed(old_size, new_size) == old_size # new_size

\* _compare_position: the PositionEvent for one symbol, in a sequence of one,
\* or the empty sequence for None
compare_position(symbol, old_state, new_state, wallet_address) ==
    LET old_size == SizeIn(old_state, symbol)
        new_size == SizeIn(new_state, symbol)
    IN  IF ~Changed(old_size, new_size) THEN <<>>
        ELSE <<[event_type |-> determine_event_type(old_size, new_size),
                symbol |-> symbol,
                side |-> EventSide(old_size, new_size),
                size |-> IF new_size < 0 THEN -new_size ELSE new_size,
                wallet_address |-> wallet_address]>>

\* _detect_changes: all_symbols, the union of the two key sets
all_symbols(old_state, new_state) == DOMAIN old_state.pos \cup DOMAIN new_state.pos

\* the orders in which a Python set may be iterated
Orders(S) == {q \in [1..Cardinality(S) -> S] : \A i, j \in DOMAIN q : q[i] = q[j] => i = j}

\* _detect_changes: the events of the symbols, taken in the order `order`
RECURSIVE detect_changes(_, _, _, _)
detect_changes(order, old_state, new_state, wallet_address) ==
    IF order = <<>> THEN <<>>
    ELSE compare_position(Head(order), old_state, new_state, wallet_address)
            \o detect_changes(Tail(order), old_state, new_state, wallet_address)

\* _poll_all_wallets with a failed query ending the cycle
M_AfterFailure_abort(idx) == Len(wallet_addresses) + 1

\* _poll_all_wallets, lines 111-112: a failure is logged and the for loop
\* goes on with the next address
AfterFailure(idx) == idx + 1

\* _poll_all_wallets diffing against an empty snapshot when there is none
M_Baseline_empty(old_state) == TRUE

\* _poll_all_wallets, line 101: `if old_state:`
Baseline(old_state) == old_state.has

\* what one pass over a wallet did: the snapshot it compared against, the
\* one it fetched, the events _detect_changes returned, and the index of the
\* event on which on_event raised (0: none)
NoPoll == [kind |-> "none", address |-> "", ok |-> FALSE, old_state |-> NoState,
           new_state |-> NoState, events |-> <<>>, raised_at |-> 0]

\* what a cycle has done: the wallets queried, those whose query failed;
\* `retry` holds the failures of the cycle before
NewCycle(failed_before) ==
    [queried |-> {}, failed |-> {}, retry |-> failed_before]

\* ------------------------------------------------------------------ store
NoRow == [present |-> FALSE, enabled |-> FALSE, max_position_usd |-> 0]
WalletRow(en, mx) == [present |-> TRUE, enabled |-> en, max_position_usd |-> mx]

\* DatabaseManager.get_wallet: SELECT ... WHERE address = address.lower()
get_wallet(address) == wallets[Lower(address)]

\* DatabaseManager.get_position: SELECT * FROM positions WHERE symbol = ...;
\* fetchone() hands back one of the matching rows, or None
\* (of a row, only symbol and source_wallet are read by the operations here)
NoPosition == [symbol |-> "", source_wallet |-> ""]
get_position(store, symbol) ==
    IF \E p \in store : p.symbol = symbol
    THEN {p \in store : p.symbol = symbol}
    ELSE {NoPosition}

\* DatabaseManager.add_position(symbol, side, size, entry_price, source_wallet):
\* INSERT ... ON CONFLICT (symbol, source_wallet) DO UPDATE
add_position(store, symbol, source_wallet) ==
    {p \in store : ~(p.symbol = symbol /\ p.source_wallet = Lower(source_wallet))}
        \cup {[symbol |-> symbol, source_wallet |-> Lower(source_wallet)]}

\* remove_position with the address compared as given (no .lower())
M_remove_position_as_given(store, symbol, source_wallet) ==
    {p \in store : ~(p.symbol = symbol /\ p.source_wallet = source_wallet)}

\* DatabaseManager.remove_position:
\* DELETE FROM positions WHERE symbol = ... AND source_wallet = ...lower()
remove_position(store, symbol, source_wallet) ==
    {p \in store : ~(p.symbol = symbol /\ p.source_wallet = Lower(source_wallet))}

\* DatabaseManager.check_position_lock on the row get_position returned:
\* TRUE when the symbol may be followed
db_check_position_lock(existing, source_wallet) ==
    IF existing = NoPosition THEN TRUE
    ELSE existing.source_wallet = Lower(source_wallet)

\* ----------------------------------------------------------------- engine
\* check_position_lock comparing the event's address as given (no .lower())
M_check_position_lock_exact(existing, wallet_address) ==
    IF existing = NoPosition
    THEN [locked |-> FALSE, holder |-> ""]
    ELSE IF Lower(existing.source_wallet) = wallet_address
         THEN [locked |-> FALSE, holder |-> ""]
         ELSE [locked |-> TRUE, holder |-> Lower(existing.source_wallet)]

\* check_position_lock that never reports a lock
M_check_position_lock_open(existing, wallet_address) ==
    [locked |-> FALSE, holder |-> ""]

\* StrategyEngine.check_position_lock on the row get_position returned
check_position_lock(existing, wallet_address) ==
    IF existing = NoPosition
    THEN [locked |-> FALSE, holder |-> ""]
    ELSE IF Lower(existing.source_wallet) = Lower(wallet_address)
         THEN [locked |-> FALSE, holder |-> ""]
         ELSE [locked |-> TRUE, holder |-> Lower(existing.source_wallet)]

\* FollowDecision values on_wallet_event produces a FollowResult with
SkipResult(kind, holder) ==
    [decision |-> "SKIP", reason |-> kind, holder |-> holder, has_params |-> FALSE,
     follow_size |-> 0, follow_side |-> "BUY", order_result |-> "none"]
ErrorResult(kind, order_result) ==
    [decision |-> "ERROR", reason |-> kind, holder |-> "", has_params |-> FALSE,
     follow_size |-> 0, follow_side |-> "BUY", order_result |-> order_result]
FollowedResult(size, side) ==
    [decision |-> "FOLLOW", reason |-> "followed", holder |-> "", has_params |-> TRUE,
     follow_size |-> size, follow_side |-> side, order_result |-> "ok"]
NoResult ==
    [decision |-> "NONE", reason |-> "", holder |-> "", has_params |-> FALSE,
     follow_size |-> 0, follow_side |-> "BUY", order_result |-> "none"]

\* on_wallet_event letting the exception out to its caller
M_OnException_propagates ==
    [decision |-> "RAISED", reason |-> "exception", holder |-> "", has_params |-> FALSE,
     follow_size |-> 0, follow_side |-> "BUY", order_result |-> "none"]

\* on_wallet_event, lines 117-122: an exception raised inside the try block
\* becomes FollowResult(decision=ERROR, reason=str(e))
OnException == ErrorResult("exception", "none")

NoOrder == [side |-> "BUY", amount |-> 0, reduce_only |-> FALSE]
IdleTask == [pc |-> "idle", ev |-> NoEvent, usd |-> 0, price |-> 0, follow_size |-> 0,
             follow_side |-> "BUY", order |-> NoOrder, submitted |-> 0,
             order_result |-> "none", result |-> NoResult, pre |-> {}]
\* pc: where the call is suspended; ev: the event; usd, price, follow_size,
\* follow_side, order: locals of the sizing and of the order; submitted: orders
\* sent to the venue; order_result: the OrderResult the execution client gave
\* ("ok" success=True, "failed" success=False); result: the FollowResult;
\* pre: the positions table when the call began

\* the side that closes a held position: LONG is sold, SHORT is bought
ClosingSide(h) == IF h > 0 THEN "SELL" ELSE "BUY"
Abs(x) == IF x < 0 THEN -x ELSE x

\* execute_follow: is_close = event_type in [CLOSE, FLIP]
IsClose(ev) == ev.event_type \in {"CLOSE", "FLIP"}

\* _calculate_close_params closing half of the position
M_calculate_close_params_half(h) ==
    IF h # 0 THEN [size |-> Abs(h), side |-> ClosingSide(h)]
             ELSE [size |-> 0, side |-> "BUY"]

\* _calculate_close_params / _calculate_flip_params on the positions the venue
\* reported (h = 0: none for the symbol, or the query failed and gave [])
calculate_close_params(h) ==
    IF h # 0 THEN [size |-> 2 * Abs(h), side |-> ClosingSide(h)]
             ELSE [size |-> 0, side |-> "BUY"]

\* _calculate_decrease_params reducing by the whole position
M_calculate_decrease_params_full(h) ==
    IF h # 0 THEN [size |-> 2 * Abs(h), side |-> ClosingSide(h)]
             ELSE [size |-> 0, side |-> "BUY"]

\* _calculate_decrease_params: reduce_size = pos.size * 0.5
calculate_decrease_params(h) ==
    IF h # 0 THEN [size |-> Abs(h), side |-> ClosingSide(h)]
             ELSE [size |-> 0, side |-> "BUY"]

Min(a, b) == IF a < b THEN a ELSE b

\* calculate_follow_size without the limit of lines 365-367
M_calculate_follow_size_uncapped(balance, row) == balance \div 10

\* calculate_follow_size: balance * 10%, capped by the wallet's
\* max_position_usd or, when that is NULL/0, the default
calculate_follow_size(balance, row) ==
    LET max_position_usd == IF row.max_position_usd # 0
                            THEN row.max_position_usd
                            ELSE default_max_position_usd
    IN  Min(balance \div 10, max_position_usd)

\* _calculate_open_params: follow_usd / price, BUY for LONG and SELL for SHORT
calculate_open_params(usd, price, ev) ==
    [size |-> (2 * usd) \div price,
     side |-> IF ev.side = "LONG" THEN "BUY" ELSE "SELL"]

\* place_market_order: base_amount = int(size * PRICE_SCALE)
BaseAmount(size) == size \div 2

\* execute_follow that updates the store whatever the order's outcome
M_StoreUpdateAlways(order_ok) == TRUE

\* execute_follow, line 409: the store is updated when order_result.success
StoreUpdateDue(order_ok) == order_ok

\* _update_position_in_db.  The close branch deletes the wallet's row.  The
\* other branch calls add_position(position_data) with ONE positional dict,
\* while DatabaseManager.add_position requires five parameters: Python raises
\* TypeError when binding the call, the except clause of
\* _update_position_in_db logs it, and the table is left as it was.
update_position_in_db(store, ev, is_close) ==
    IF is_close
    THEN remove_position(store, ev.symbol, ev.wallet_address)
    ELSE store

\* ------------------------------------------------------------ mirror venue
\* get_positions(): the size held for the symbol, 0 when the account has no
\* position in it or when the query failed (ok = FALSE) and [] came back
ReportedSize(symbol, ok) ==
    IF ok /\ symbol \in MARKET_INDEX THEN held[symbol] ELSE 0

\* get_market_price(): None (here 0) for a symbol _get_market_index does not
\* know, for a failed query and for an empty book; else the mid price
MarketPrice(symbol, quoted) ==
    IF symbol \in MARKET_INDEX THEN quoted ELSE 0

\* what a market order the venue accepts does to the held position
VenueFill(h, order) ==
    LET d == IF order.side = "BUY" THEN order.amount ELSE -order.amount
    IN  IF order.reduce_only
        THEN IF h > 0 THEN (IF h + d < 0 THEN 0 ELSE h + d)
                      ELSE (IF h + d > 0 THEN 0 ELSE h + d)
        ELSE h + d

\* the venue refuses an empty order, a reduce-only order that does not
\* reduce, and a position beyond its limit
VenueAccepts(h, order) ==
    /\ order.amount > 0
    /\ order.reduce_only => (h # 0 /\ order.side = ClosingSide(h))
    /\ Abs(VenueFill(h, order)) <= MaxHeld

\* what the latest refresh of the balance cache did (last: "none" before the
\* first, "ok", or "failed" when get_account_info gave None), the cached value
\* it replaced, and the _get_my_balance calls served from the cache since
\* (counted up to MaxHits)
MaxHits == 2
NoBalanceLog == [last |-> "none", before |-> 0, hits |-> 0]

\* --------------------------------------------------- LighterTrader, retries
\* LighterTrader.__init__: max_retries, by default
max_retries == 5
\* the values the constructor may be given for it
RetrySettings == 1..max_retries

\* the public operations that wrap a remote call in _retry_operation
Operations == {"get_balance", "get_positions", "get_market_price", "place_market_order"}

\* what a remote call answers when it succeeds: the account's available
\* balance, its position (0: none), the book's mid price, the order accepted
\* (1) or answered with an error (0)
Replies(op) ==
    CASE op = "get_balance" -> BalanceValues
      [] op = "get_positions" -> (-MaxHeld)..MaxHeld
      [] op = "get_market_price" -> PriceValues
      [] op = "place_market_order" -> {0, 1}
      [] OTHER -> {}

\* what a public operation hands to its caller.  shape: "value" a result of
\* the operation's normal kind (a balance, a list of positions, a price, an
\* OrderResult with success=True), "none" a None, "error_result" an
\* OrderResult with success=False and the error, "exception" a raised error
NoOutcome == [shape |-> "pending", value |-> 0]

\* no call in progress; n is self.max_retries
IdleRetry(n) ==
    [op |-> "", pc |-> "idle", n |-> n, attempt |-> 0, calls |-> 0, sleeps |-> 0,
     last_error |-> 0, exhausted |-> FALSE, reply |-> 0, outcome |-> NoOutcome]
\* pc: "idle", "attempt" (about to await operation()), "sleep" (in
\* asyncio.sleep(retry_delay)), "returned" / "raised" (_retry_operation is
\* over), "done" (the public operation has returned); attempt: the loop
\* variable; calls: operation() invocations; sleeps: delays taken;
\* last_error: the attempt whose exception last_error holds (0: None)

\* _retry_operation trying once more than max_retries
M_AttemptsLeft_one_more(attempt, n) == attempt <= n

\* _retry_operation, line 156: range(1, max_retries + 1) has a next value
AttemptsLeft(attempt, n) == attempt < n

\* _retry_operation, line 163: a delay follows a failed attempt
SleepsAfter(attempt, n) == attempt < n

\* the public operation's result when _retry_operation returned `reply`
OnReturn(op, reply) ==
    CASE op = "get_balance" -> [shape |-> "value", value |-> reply]
      [] op = "get_positions" -> [shape |-> "value", value |-> reply]
      [] op = "get_market_price" -> [shape |-> "value", value |-> reply]
      [] op = "place_market_order" ->
            IF reply = 1 THEN [shape |-> "value", value |-> 1]
            ELSE [shape |-> "error_result", value |-> 0]

\* the public operation's result when _retry_operation raised: every one
\* catches the error.  get_account_info returns None, of which get_balance
\* makes Decimal("0"); get_positions returns the empty list it started
\* with; get_market_price returns None; place_market_order returns
\* OrderResult(success=False, error=str(e)).
OnRaise(op) ==
    CASE op = "get_balance" -> [shape |-> "value", value |-> 0]
      [] op = "get_positions" -> [shape |-> "value", value |-> 0]
      [] op = "get_market_price" -> [shape |-> "none", value |-> 0]
      [] op = "place_market_order" -> [shape |-> "error_result", value |-> 0]

\* ---------------------------------------------------- LighterTrader, orders
\* place_market_order calls that take a client order index, per trader
MaxOrders == 3

\* the markets the account may hold a position in: 0 is BTC in MARKET_INDEX,
\* 7 is a market MARKET_INDEX has no symbol for
Markets == {0, 7}
AccountSizes == (-MaxHeld)..MaxHeld

\* _get_symbol_by_market_index
get_symbol_by_market_index(market_index) ==
    IF market_index = 0 THEN "BTC" ELSE "UNKNOWN_7"

\* the best bid and the best ask of the book as get_market_price parses them,
\* str(price) with the "." removed: an integer; 0 for an empty side (and a
\* price of 0 is taken for an empty side: `if best_bid and best_ask`)
Ticks == {0, 5, 6}
Books == {b \in [bid : Ticks, ask : Ticks] : b.bid = 0 \/ b.ask = 0 \/ b.bid < b.ask}

\* get_market_price, lines 317-329, in halves of a unit: the middle of bid
\* and ask, the one there is, or None (0)
MidPrice2(book) ==
    IF book.bid # 0 /\ book.ask # 0 THEN book.bid + book.ask
    ELSE IF book.bid # 0 THEN 2 * book.bid
    ELSE IF book.ask # 0 THEN 2 * book.ask
    ELSE 0

\* max_slippage in percent; the default is 0.01
default_max_slippage == 1
Slippages == {0, default_max_slippage}

\* place_market_order, lines 371-378: int(current_price * (1 -/+ max_slippage)),
\* the price in halves of a unit, int() truncating
execution_price(price2, side, max_slippage) ==
    IF side = "SELL"
    THEN (price2 * (100 - max_slippage)) \div 200
    ELSE (price2 * (100 + max_slippage)) \div 200

\* _generate_client_order_index handing out the counter as it is
M_generate_client_order_index_stale(order_counter) == order_counter

\* _generate_client_order_index: the counter after `self._order_counter += 1`
generate_client_order_index(order_counter) == order_counter + 1

NoSubmission ==
    [symbol |-> "", side |-> "BUY", amount |-> 0, reduce_only |-> FALSE,
     max_slippage |-> 0, price2 |-> 0, execution_price |-> 0, index |-> 0,
     submitted |-> FALSE]

\* a trader just constructed, on an account with the given positions.
\* order_counter is counted from its seed int(time.time() * 1000).
\* pc: "idle"; "pm_price", "pm_submit", "pm_done" in place_market_order;
\* "cp_positions" in close_position; "ca_positions", "ca_next", "ca_done" in
\* close_all_positions.  caller: the operation that was called.  order: the
\* order place_market_order is building.  indexes: the client_order_index
\* of every order handed to create_market_order, in order.  queue, results,
\* closes: close_all_positions' positions still to close, its results, the
\* close_position calls it made.  pre: the account when it was called.
NewTrader(account) ==
    [pc |-> "idle", caller |-> "", order_counter |-> 0, account |-> account,
     order |-> NoSubmission, order_result |-> "none", indexes |-> <<>>,
     queue |-> <<>>, results |-> {}, closes |-> 0, orders |-> 0, pre |-> account]

\* --------------------------------------------------------------- HyperTrack
\* events counted per wallet, up to
MaxHanded == 2

\* HyperTrack after start() created its tasks.
\* stage: how far stop() is: "running" (not called), "tracker_stopped",
\* "bot_stopped", "trader_closed", "store_closed", "cancelled".
\* bot_running: TelegramBot._running.
\* handed: per wallet, the events the tracker called on_event with.
\* never_awaited: per wallet, the coroutine objects those calls returned that
\* were destroyed without having been started.
\* aborted: the await the tracker's task was suspended in when it was
\* cancelled ("": not cancelled there).
\* expected: the events handed to on_event while the bot was running.
\* sink: what the bot was given to send: notify_wallet_event calls (events),
\* notify_new_trade calls (trades), notify_error calls (errors), the reason
\* in the latest notify_error.
\* h_pc, h_ev, h_result: the _on_wallet_event call being awaited: where it
\* is ("idle", "entered", "engine", "done"), its event, the FollowResult the
\* engine returned.  h_raised: an exception was raised inside the engine's
\* on_wallet_event during the call.  h_except: the handler's own `except`
\* branch ran.  h_down: the bot was found not running at a notification.
NoSink == [events |-> 0, trades |-> 0, errors |-> 0, reason |-> ""]
NewPipeline ==
    [stage |-> "running", bot_running |-> FALSE,
     handed |-> [a \in Tracked |-> 0], never_awaited |-> [a \in Tracked |-> 0],
     aborted |-> "", expected |-> 0, sink |-> NoSink,
     h_pc |-> "idle", h_ev |-> NoEvent, h_result |-> NoResult,
     h_raised |-> FALSE, h_except |-> FALSE, h_down |-> FALSE]

\* ------------------------------------------------------------------- Init
\* The positions table outlives the process: it holds the rows earlier
\* add_position calls left (test_db_crud.py:68-89), at most one per symbol.
PersistedTables ==
    {store \in SUBSET [symbol : Symbols, source_wallet : Wallets] :
        \A p, q \in store : p.symbol = q.symbol => p = q}

Init ==
    /\ wallets = [w \in Wallets |-> WalletRow(TRUE, MaxPositionOf(w))]
    /\ positions \in PersistedTables
    /\ held = [s \in MARKET_INDEX |-> 0]
    /\ my_balance = 0
    /\ balance_age = BalanceCacheTicks + 1
    /\ task = [t \in Tasks |-> IdleTask]
    /\ tk_running = FALSE
    /\ tk_pc = "new"
    /\ tk_idx = 1
    /\ last_states = [a \in Tracked |-> NoState]
    /\ last_poll = NoPoll
    /\ cycle = NewCycle({})
    /\ balance_log = NoBalanceLog
    /\ rt \in {IdleRetry(n) : n \in {max_retries}}
    /\ tr = NewTrader([m \in Markets |-> 0])
    /\ pl = NewPipeline

\* --------------------------------------------------------- on_wallet_event
\* One action per stretch of on_wallet_event between two awaits of I/O (a
\* store query, a venue query, the order submission, a store write).
Finish(t, res) ==
    task' = [task EXCEPT ![t].pc = "done", ![t].result = res]
Goto(t, label) == task' = [task EXCEPT ![t].pc = label]
InFlight == {t \in Tasks : task[t].pc # "idle"}

\* on_wallet_event(event) is called: at most `limit` calls are in flight
Call(t, ev, limit) ==
    /\ task[t].pc = "idle"
    /\ \A u \in Tasks : u < t => task[u].pc # "idle"
    /\ Cardinality(InFlight) < limit
    /\ task' = [task EXCEPT ![t] = [IdleTask EXCEPT !.pc = "get_wallet",
                                                   !.ev = ev, !.pre = positions]]
    /\ UNCHANGED <<wallets, positions, held, my_balance, balance_age>>

\* should_follow going on to the lock check whatever the wallet row says
M_WalletCheck_skipped(wallet) == "OK"

\* should_follow, lines 143-147: the outcome of check 1 on the row get_wallet gave
WalletCheck(wallet) ==
    IF ~wallet.present THEN "wallet_not_tracked"
    ELSE IF ~wallet.enabled THEN "wallet_disabled"
    ELSE "OK"

\* should_follow, check 1: the wallet is tracked and enabled
CheckWallet(t) ==
    /\ task[t].pc = "get_wallet"
    /\ LET verdict == WalletCheck(get_wallet(task[t].ev.wallet_address))
       IN  IF verdict # "OK" THEN Finish(t, SkipResult(verdict, ""))
           ELSE Goto(t, "check_lock")
    /\ UNCHANGED <<wallets, positions, held, my_balance, balance_age>>

\* should_follow, check 2: the symbol is not locked by another wallet
CheckLock(t) ==
    /\ task[t].pc = "check_lock"
    /\ \E existing \in get_position(positions, task[t].ev.symbol) :
         LET lock == check_position_lock(existing, task[t].ev.wallet_address)
         IN  IF lock.locked THEN Finish(t, SkipResult("locked", lock.holder))
                            ELSE Goto(t, "get_balance")
    /\ UNCHANGED <<wallets, positions, held, my_balance, balance_age>>

\* _get_my_balance: the cache is refreshed when older than the interval.
\* get_balance() never raises: get_account_info turns a failed query into
\* None and get_balance turns None into Decimal("0").
\* _get_my_balance refreshing on every call
M_BalanceDue_always(age) == TRUE

\* _get_my_balance, line 473: the cached value is older than the interval
BalanceDue(age) == age > BalanceCacheTicks
BalanceExpired == BalanceDue(balance_age)

\* LighterTrader.get_balance on what get_account_info returned
get_balance(account_info) ==
    IF account_info.ok THEN account_info.available_balance ELSE 0

RefreshedBalance(account_info) ==
    IF BalanceExpired THEN get_balance(account_info) ELSE my_balance
GetMyBalance(account_info) ==
    /\ my_balance' = RefreshedBalance(account_info)
    /\ balance_age' = IF BalanceExpired THEN 0 ELSE balance_age

\* should_follow, checks 3 and 4: own balance > 0, event kind not UNKNOWN
CheckBalance(t, account_info) ==
    /\ task[t].pc = "get_balance"
    /\ GetMyBalance(account_info)
    /\ IF my_balance' <= 0 THEN Finish(t, SkipResult("no_balance", ""))
       ELSE IF task[t].ev.event_type = "UNKNOWN"
            THEN Finish(t, SkipResult("unknown_event", ""))
       ELSE IF task[t].ev.event_type \in {"OPEN", "INCREASE"}
            THEN Goto(t, "size_balance")
       ELSE Goto(t, "size_positions")
    /\ UNCHANGED <<wallets, positions, held>>

\* on_wallet_event going on to execute_follow whatever the size
M_SizeUsable_any(size) == TRUE

\* on_wallet_event, line 105: `if follow_size <= 0` is a SKIP
SizeUsable(size) == size > 0

\* calculate_follow_params for CLOSE, FLIP, DECREASE: get_positions(), which
\* gives [] when the query fails (ok = FALSE); a size <= 0 is a SKIP
SizeFromPositions(t, ok) ==
    /\ task[t].pc = "size_positions"
    /\ LET h == ReportedSize(task[t].ev.symbol, ok)
           p == IF task[t].ev.event_type = "DECREASE"
                THEN calculate_decrease_params(h)
                ELSE calculate_close_params(h)
       IN  IF ~SizeUsable(p.size) THEN Finish(t, SkipResult("zero_size", ""))
           ELSE task' = [task EXCEPT ![t].pc = IF IsClose(task[t].ev)
                                                THEN "close_positions"
                                                ELSE "order_price",
                                     ![t].follow_size = p.size,
                                     ![t].follow_side = p.side,
                                     ![t].order = [side |-> p.side,
                                                   amount |-> BaseAmount(p.size),
                                                   reduce_only |-> FALSE]]
    /\ UNCHANGED <<wallets, positions, held, my_balance, balance_age>>

\* calculate_follow_size, first await: _get_my_balance again
SizeBalance(t, account_info) ==
    /\ task[t].pc = "size_balance"
    /\ GetMyBalance(account_info)
    /\ IF my_balance' <= 0 THEN Finish(t, SkipResult("zero_size", ""))
       ELSE Goto(t, "size_wallet")
    /\ UNCHANGED <<wallets, positions, held>>

\* calculate_follow_size, second await: get_wallet; wallet.get on None raises
\* AttributeError, which on_wallet_event turns into ERROR
SizeWallet(t) ==
    /\ task[t].pc = "size_wallet"
    /\ LET wallet == get_wallet(task[t].ev.wallet_address)
       IN  IF ~wallet.present THEN Finish(t, OnException)
           ELSE task' = [task EXCEPT ![t].pc = "size_price",
                                     ![t].usd = calculate_follow_size(my_balance, wallet)]
    /\ UNCHANGED <<wallets, positions, held, my_balance, balance_age>>

\* _calculate_open_params: get_market_price; price 0 stands for None
SizePrice(t, quoted) ==
    /\ task[t].pc = "size_price"
    /\ LET price == MarketPrice(task[t].ev.symbol, quoted)
           p == IF task[t].usd <= 0 \/ price <= 0
                THEN [size |-> 0, side |-> "BUY"]
                ELSE calculate_open_params(task[t].usd, price, task[t].ev)
       IN       IF ~SizeUsable(p.size) THEN Finish(t, SkipResult("zero_size", ""))
                ELSE task' = [task EXCEPT ![t].pc = "order_price",
                                          ![t].price = price,
                                          ![t].follow_size = p.size,
                                          ![t].follow_side = p.side,
                                          ![t].order = [side |-> p.side,
                                                        amount |-> BaseAmount(p.size),
                                                        reduce_only |-> FALSE]]
    /\ UNCHANGED <<wallets, positions, held, my_balance, balance_age>>

\* close_position: get_positions(); no position for the symbol (or a failed
\* query, ok = FALSE) is OrderResult(success=True) with no order placed
ClosePositions(t, ok) ==
    /\ task[t].pc = "close_positions"
    /\ LET h == ReportedSize(task[t].ev.symbol, ok)
       IN  IF h = 0 THEN task' = [task EXCEPT ![t].pc = "update_db",
                                              ![t].order_result = "ok"]
           ELSE task' = [task EXCEPT ![t].pc = "order_price",
                                     ![t].order = [side |-> ClosingSide(h),
                                                   amount |-> Abs(h),
                                                   reduce_only |-> TRUE]]
    /\ UNCHANGED <<wallets, positions, held, my_balance, balance_age>>

\* place_market_order: get_market_price; None is OrderResult(success=False)
OrderPrice(t, quoted) ==
    /\ task[t].pc = "order_price"
    /\ IF MarketPrice(task[t].ev.symbol, quoted) <= 0
       THEN task' = [task EXCEPT ![t].pc = "done", ![t].order_result = "failed",
                                 ![t].result = ErrorResult("order_failed", "failed")]
       ELSE Goto(t, "order_submit")
    /\ UNCHANGED <<wallets, positions, held, my_balance, balance_age>>

\* place_market_order: the order goes out through _retry_operation; the
\* venue fills it (ok) or the submission fails for good
OrderSubmit(t, ok) ==
    /\ task[t].pc = "order_submit"
    /\ LET s == task[t].ev.symbol
           filled == ok /\ VenueAccepts(held[s], task[t].order)
       IN  /\ held' = IF filled
                      THEN [held EXCEPT ![s] = VenueFill(held[s], task[t].order)]
                      ELSE held
           /\ IF StoreUpdateDue(filled)
              THEN task' = [task EXCEPT ![t].pc = "update_db", ![t].submitted = 1,
                                        ![t].order_result = IF filled THEN "ok" ELSE "failed"]
              ELSE task' = [task EXCEPT ![t].pc = "done", ![t].submitted = 1,
                                        ![t].order_result = "failed",
                                        ![t].result = ErrorResult("order_failed", "failed")]
    /\ UNCHANGED <<wallets, positions, my_balance, balance_age>>

\* execute_follow after a successful order: _update_position_in_db, FOLLOW
UpdateDb(t) ==
    /\ task[t].pc = "update_db"
    /\ positions' = update_position_in_db(positions, task[t].ev, IsClose(task[t].ev))
    /\ Finish(t, FollowedResult(task[t].follow_size, task[t].follow_side))
    /\ UNCHANGED <<wallets, held, my_balance, balance_age>>

\* the FollowResult is handed to the caller
Return(t) ==
    /\ task[t].pc = "done"
    /\ task' = [task EXCEPT ![t] = IdleTask]
    /\ UNCHANGED <<wallets, positions, held, my_balance, balance_age>>

\* ------------------------------------------------- control surface, clock
\* BotHandlers._toggle_wallet: update_wallet_status(address, not enabled)
ToggleWallet(w) ==
    /\ wallets[w].present
    /\ wallets' = [wallets EXCEPT ![w].enabled = ~wallets[w].enabled]
    /\ UNCHANGED <<positions, held, my_balance, balance_age, task>>

\* BotHandlers._delete_wallet: remove_wallet(address)
DeleteWallet(w) ==
    /\ wallets[w].present
    /\ wallets' = [wallets EXCEPT ![w] = NoRow]
    /\ UNCHANGED <<positions, held, my_balance, balance_age, task>>

\* time passes
Tick ==
    /\ balance_age <= BalanceCacheTicks
    /\ balance_age' = balance_age + 1
    /\ UNCHANGED <<wallets, positions, held, my_balance, task>>

\* the steps that call _get_my_balance
BalanceStep(t, account_info) ==
    \/ CheckBalance(t, account_info)
    \/ SizeBalance(t, account_info)

\* the other steps of a call up to its return statement
InnerStep(t) ==
    \/ CheckWallet(t)
    \/ CheckLock(t)
    \/ \E ok \in BOOLEAN : SizeFromPositions(t, ok)
    \/ SizeWallet(t)
    \/ \E price \in PriceValues \cup {0} : SizePrice(t, price)
    \/ \E ok \in BOOLEAN : ClosePositions(t, ok)
    \/ \E price \in PriceValues \cup {0} : OrderPrice(t, price)
    \/ \E ok \in BOOLEAN : OrderSubmit(t, ok)
    \/ UpdateDb(t)

OtherStep(t) ==
    \/ InnerStep(t)
    \/ Return(t)

Step(t) ==
    \/ \E account_info \in AccountReplies : BalanceStep(t, account_info)
    \/ OtherStep(t)

Control ==
    \/ \E w \in Wallets : ToggleWallet(w)
    \/ \E w \in Wallets : DeleteWallet(w)
    \/ Tick

\* the engine fed one event at a time
Next ==
    /\ \/ \E t \in Tasks, ev \in Events : Call(t, ev, 1)
       \/ \E t \in Tasks : Step(t)
       \/ Control
    /\ UNCHANGED <<tracker_vars, balance_log, rt, tr, pl>>

Spec == Init /\ [][Next]_vars

\* the engine with two calls interleaving at their awaits (as when two
\* events are handled by tasks of one event loop), on OPEN and CLOSE events
ConcEvents == {e \in Events : e.event_type \in {"OPEN", "CLOSE"} /\ e.side = "LONG"}
NextConc ==
    /\ \/ \E t \in Tasks, ev \in ConcEvents : Call(t, ev, Cardinality(Tasks))
       \/ \E t \in Tasks : Step(t)
    /\ UNCHANGED <<tracker_vars, balance_log, rt, tr, pl>>

SpecConc == Init /\ [][NextConc]_vars

\* the engine with the control surface acting on the event's wallet only
\* while the call is suspended between should_follow and the sizing
\* (calculate_follow_params not yet entered) or between the sizing and the
\* execution (execute_follow's first await)
BetweenStages(t, w) ==
    /\ Lower(task[t].ev.wallet_address) = w
    /\ \/ task[t].pc \in {"size_balance", "size_positions", "close_positions"}
       \/ task[t].pc = "order_price" /\ ~IsClose(task[t].ev)

NextRace ==
    /\ \/ \E t \in Tasks, ev \in Events : Call(t, ev, 1)
       \/ \E t \in Tasks : Step(t)
       \/ \E t \in Tasks, w \in Wallets : BetweenStages(t, w) /\ ToggleWallet(w)
       \/ \E t \in Tasks, w \in Wallets : BetweenStages(t, w) /\ DeleteWallet(w)
    /\ UNCHANGED <<tracker_vars, balance_log, rt, tr, pl>>

SpecRace == Init /\ [][NextRace]_vars

\* the engine started on a store and an account that agree: the account
\* holds a BTC position and the positions table has its row, with the side
\* and the size add_position stored (size in base units) and the first
\* wallet as source.  Rows carry side and size here because
\* _update_position_in_db computes them (lines 455-461).
MirroredRow(symbol, source_wallet, h) ==
    [symbol |-> symbol, source_wallet |-> source_wallet,
     side |-> IF h > 0 THEN "LONG" ELSE "SHORT", size |-> Abs(h)]

InitRecord ==
    /\ wallets = [w \in Wallets |-> WalletRow(TRUE, MaxPositionOf(w))]
    /\ \E h \in AccountSizes \ {0} :
          /\ held = [s \in MARKET_INDEX |-> h]
          /\ positions = {MirroredRow("BTC", wallet_addresses[1], h)}
    /\ my_balance = 0
    /\ balance_age = BalanceCacheTicks + 1
    /\ task = [t \in Tasks |-> IdleTask]
    /\ tk_running = FALSE
    /\ tk_pc = "new"
    /\ tk_idx = 1
    /\ last_states = [a \in Tracked |-> NoState]
    /\ last_poll = NoPoll
    /\ cycle = NewCycle({})
    /\ balance_log = NoBalanceLog
    /\ rt = IdleRetry(max_retries)
    /\ tr = NewTrader([m \in Markets |-> 0])
    /\ pl = NewPipeline

NextRecord ==
    /\ \/ \E t \in Tasks, ev \in Events : Call(t, ev, 1)
       \/ \E t \in Tasks : Step(t)
    /\ UNCHANGED <<tracker_vars, balance_log, rt, tr, pl>>

SpecRecord == InitRecord /\ [][NextRecord]_vars

\* the engine fed events for as long as the tracker emits any, with no
\* control command.  A call that has begun goes on to its return (every
\* await of on_wallet_event comes back: the retry layer bounds the remote
\* calls); whether another event ever comes is up to the source wallets.
EngineStep ==
    /\ \E t \in Tasks : Step(t)
    /\ UNCHANGED <<tracker_vars, balance_log, rt, tr, pl>>

SpecUnlock == Init /\ [][NextRecord]_vars /\ WF_vars(EngineStep)

\* ------------------------------------------------------ the balance cache
\* The engine fed one event at a time by one wallet on one symbol, with the
\* clock running and a record kept of what each _get_my_balance call did.
CacheEvents ==
    {e \in Events : e.symbol = "BTC" /\ e.wallet_address = "0xb" /\ e.side = "LONG"}

LogBalance(account_info) ==
    balance_log' =
        IF BalanceExpired
        THEN [last |-> IF account_info.ok THEN "ok" ELSE "failed",
              before |-> my_balance, hits |-> 0]
        ELSE [balance_log EXCEPT !.hits = Min(@ + 1, MaxHits)]

InitCache ==
    /\ Init
    /\ positions = {}

NextCache ==
    /\ \/ \E t \in Tasks, ev \in CacheEvents : Call(t, ev, 1) /\ UNCHANGED balance_log
       \/ \E t \in Tasks, account_info \in AccountReplies :
              BalanceStep(t, account_info) /\ LogBalance(account_info)
       \/ \E t \in Tasks : OtherStep(t) /\ UNCHANGED balance_log
       \/ Tick /\ UNCHANGED balance_log
    /\ UNCHANGED <<tracker_vars, rt, tr, pl>>

SpecCache == InitCache /\ [][NextCache]_vars

\* --------------------------------------------------------- _retry_operation
\* One action per await of _retry_operation: the operation, the delay.

\* a public operation is called and reaches its _retry_operation
RtCall(op) ==
    /\ rt.pc = "idle"
    /\ rt' = [IdleRetry(rt.n) EXCEPT !.op = op, !.pc = "attempt", !.attempt = 1]

\* await operation(): it returns `reply` (ok) or raises
RtAttempt(ok, reply) ==
    /\ rt.pc = "attempt"
    /\ rt' = IF ok
             THEN [rt EXCEPT !.calls = @ + 1, !.pc = "returned", !.reply = reply]
             ELSE IF SleepsAfter(rt.attempt, rt.n)
                  THEN [rt EXCEPT !.calls = @ + 1, !.pc = "sleep",
                                  !.last_error = rt.attempt]
                  ELSE IF AttemptsLeft(rt.attempt, rt.n)
                       THEN [rt EXCEPT !.calls = @ + 1, !.attempt = @ + 1,
                                       !.last_error = rt.attempt]
                       ELSE [rt EXCEPT !.calls = @ + 1, !.pc = "raised",
                                       !.last_error = rt.attempt,
                                       !.exhausted = TRUE]

\* await asyncio.sleep(retry_delay) is over: the loop goes on, or ends
RtSleep ==
    /\ rt.pc = "sleep"
    /\ rt' = IF AttemptsLeft(rt.attempt, rt.n)
             THEN [rt EXCEPT !.sleeps = @ + 1, !.pc = "attempt", !.attempt = @ + 1]
             ELSE [rt EXCEPT !.sleeps = @ + 1, !.pc = "raised", !.exhausted = TRUE]

\* the public operation returns to its caller
RtFinish ==
    /\ rt.pc \in {"returned", "raised"}
    /\ rt' = [rt EXCEPT !.pc = "done",
                        !.outcome = IF rt.pc = "raised" THEN OnRaise(rt.op)
                                    ELSE OnReturn(rt.op, rt.reply)]

\* the caller has the result
RtReturn ==
    /\ rt.pc = "done"
    /\ rt' = IdleRetry(rt.n)

InitRetry ==
    /\ wallets = [w \in Wallets |-> WalletRow(TRUE, MaxPositionOf(w))]
    /\ positions = {}
    /\ held = [s \in MARKET_INDEX |-> 0]
    /\ my_balance = 0
    /\ balance_age = BalanceCacheTicks + 1
    /\ task = [t \in Tasks |-> IdleTask]
    /\ tk_running = FALSE
    /\ tk_pc = "new"
    /\ tk_idx = 1
    /\ last_states = [a \in Tracked |-> NoState]
    /\ last_poll = NoPoll
    /\ cycle = NewCycle({})
    /\ balance_log = NoBalanceLog
    /\ rt \in {IdleRetry(n) : n \in RetrySettings}
    /\ tr = NewTrader([m \in Markets |-> 0])
    /\ pl = NewPipeline

NextRetry ==
    /\ \/ \E op \in Operations : RtCall(op)
       \/ \E ok \in BOOLEAN : \E reply \in Replies(rt.op) : RtAttempt(ok, reply)
       \/ RtSleep
       \/ RtFinish
       \/ RtReturn
    /\ UNCHANGED <<engine_vars, tracker_vars, balance_log, tr, pl>>

SpecRetry == InitRetry /\ [][NextRetry]_vars

\* ---------------------------------- place_market_order, close_all_positions
\* One action per stretch between two awaits of a remote call.

\* place_market_order up to its first await: _get_market_index raises
\* ValueError for an unmapped symbol (caught: OrderResult(success=False)),
\* else the client order index is taken
EnterPlace(symbol, side, amount, reduce_only, max_slippage) ==
    IF symbol \notin MARKET_INDEX
    THEN [tr EXCEPT !.pc = "pm_done", !.order_result = "failed",
                    !.order = [NoSubmission EXCEPT
                                  !.symbol = symbol, !.side = side,
                                  !.amount = amount, !.reduce_only = reduce_only,
                                  !.max_slippage = max_slippage]]
    ELSE [tr EXCEPT !.pc = "pm_price",
                    !.order_counter = generate_client_order_index(@),
                    !.order = [NoSubmission EXCEPT
                                  !.symbol = symbol, !.side = side,
                                  !.amount = amount, !.reduce_only = reduce_only,
                                  !.max_slippage = max_slippage,
                                  !.index = generate_client_order_index(tr.order_counter)]]

\* place_market_order(symbol, side, size, max_slippage=...) is called
PlaceCall(symbol, side, max_slippage) ==
    /\ tr.pc = "idle"
    /\ tr.order_counter < MaxOrders
    /\ tr' = [EnterPlace(symbol, side, 1, FALSE, max_slippage) EXCEPT
                 !.caller = "place_market_order"]

\* await get_market_price: None (the query failed, ok = FALSE, or the book
\* is empty) ends the call with success=False; else the limit is computed
PlacePrice(book, ok) ==
    /\ tr.pc = "pm_price"
    /\ LET price2 == IF ok THEN MidPrice2(book) ELSE 0
       IN  tr' = IF price2 = 0
                 THEN [tr EXCEPT !.pc = "pm_done", !.order_result = "failed"]
                 ELSE [tr EXCEPT !.pc = "pm_submit",
                                 !.order.price2 = price2,
                                 !.order.execution_price =
                                     execution_price(price2, tr.order.side,
                                                     tr.order.max_slippage)]

\* what the venue does with the order: a reduce-only order takes the
\* position towards 0, another order moves it by its amount
Filled(h, order) ==
    LET d == IF order.side = "BUY" THEN order.amount ELSE -order.amount
    IN  IF order.reduce_only
        THEN IF h > 0 THEN (IF h + d < 0 THEN 0 ELSE h + d)
                      ELSE (IF h + d > 0 THEN 0 ELSE h + d)
        ELSE h + d

\* await _retry_operation(_place_order): the order is handed to
\* create_market_order; the venue takes it (ok) or the call fails
PlaceSubmit(ok) ==
    /\ tr.pc = "pm_submit"
    /\ LET h == tr.account[0]
           taken == ok /\ Filled(h, tr.order) \in AccountSizes
       IN  tr' = [tr EXCEPT !.pc = "pm_done",
                            !.order.submitted = TRUE,
                            !.indexes = Append(@, tr.order.index),
                            !.orders = @ + 1,
                            !.order_result = IF taken THEN "ok" ELSE "failed",
                            !.account[0] = IF taken THEN Filled(h, tr.order) ELSE h]

\* the OrderResult is returned: to the caller of place_market_order, or to
\* close_all_positions, which stores it under the symbol
PlaceReturn ==
    /\ tr.pc = "pm_done"
    /\ tr' = IF tr.caller = "close_all_positions"
             THEN [tr EXCEPT !.pc = "ca_next",
                             !.results = {r \in @ : r.symbol # tr.order.symbol}
                                         \cup {[symbol |-> tr.order.symbol,
                                                 success |-> tr.order_result = "ok"]},
                             !.order = NoSubmission, !.order_result = "none"]
             ELSE [tr EXCEPT !.pc = "idle", !.caller = "", !.order = NoSubmission,
                             !.order_result = "none", !.orders = 0]

\* close_all_positions() is called
CloseAllCall ==
    /\ tr.pc = "idle"
    /\ tr.order_counter < MaxOrders
    /\ tr' = [tr EXCEPT !.pc = "ca_positions", !.caller = "close_all_positions",
                        !.pre = tr.account, !.results = {}, !.closes = 0,
                        !.orders = 0, !.queue = <<>>]

\* get_positions(): the symbols of the markets with a position, in the
\* account's order; the empty list when the query failed (ok = FALSE)
PositionList(account, ok) ==
    IF ~ok THEN <<>>
    ELSE (IF account[0] # 0 THEN <<get_symbol_by_market_index(0)>> ELSE <<>>)
         \o (IF account[7] # 0 THEN <<get_symbol_by_market_index(7)>> ELSE <<>>)

\* close_all_positions, line 471
CloseAllPositions(ok) ==
    /\ tr.pc = "ca_positions"
    /\ tr' = [tr EXCEPT !.pc = "ca_next", !.queue = PositionList(tr.account, ok)]

\* close_all_positions, lines 473-477: the next close_position call, or return
CloseAllNext ==
    /\ tr.pc = "ca_next"
    /\ tr' = IF tr.queue = <<>>
             THEN [tr EXCEPT !.pc = "ca_done"]
             ELSE [tr EXCEPT !.pc = "cp_positions", !.queue = Tail(@),
                             !.closes = @ + 1,
                             !.order = [NoSubmission EXCEPT !.symbol = Head(tr.queue)]]

\* close_position(symbol) is called (execute_follow, the bot's handlers)
ClosePositionCall(symbol) ==
    /\ tr.pc = "idle"
    /\ tr.order_counter < MaxOrders
    /\ tr' = [tr EXCEPT !.pc = "cp_positions", !.caller = "close_position",
                        !.pre = tr.account, !.orders = 0,
                        !.order = [NoSubmission EXCEPT !.symbol = symbol]]

\* close_position: get_positions(); no position for the symbol (or a
\* failed query) is OrderResult(success=True) without an order, else
\* place_market_order on the closing side, reduce-only, default slippage
ClosePositionQuery(ok) ==
    /\ tr.pc = "cp_positions"
    /\ LET listed == PositionList(tr.account, ok)
           symbol == tr.order.symbol
           m == IF symbol = "BTC" THEN 0 ELSE 7
       IN  tr' = IF \A i \in DOMAIN listed : listed[i] # symbol
                 THEN [tr EXCEPT !.pc = "pm_done", !.order_result = "ok"]
                 ELSE EnterPlace(symbol, ClosingSide(tr.account[m]),
                                 Abs(tr.account[m]), TRUE, default_max_slippage)

\* close_all_positions returns its results
CloseAllReturn ==
    /\ tr.pc = "ca_done"
    /\ tr' = [tr EXCEPT !.pc = "idle", !.caller = "", !.results = {}, !.closes = 0,
                        !.orders = 0, !.pre = tr.account]

\* between calls the account changes by other means (deposits aside, a
\* position opened or closed from another client)
AccountChange(m, h) ==
    /\ tr.pc = "idle"
    /\ tr.account[m] # h
    /\ tr' = [tr EXCEPT !.account[m] = h, !.pre = [tr.account EXCEPT ![m] = h]]

NextOrder ==
    /\ \/ \E symbol \in Symbols, side \in {"BUY", "SELL"}, s \in Slippages :
             PlaceCall(symbol, side, s)
       \/ \E book \in Books, ok \in BOOLEAN : PlacePrice(book, ok)
       \/ \E ok \in BOOLEAN : PlaceSubmit(ok)
       \/ PlaceReturn
       \/ CloseAllCall
       \/ \E symbol \in Symbols \cup {get_symbol_by_market_index(m) : m \in Markets} :
             ClosePositionCall(symbol)
       \/ \E ok \in BOOLEAN : CloseAllPositions(ok)
       \/ CloseAllNext
       \/ \E ok \in BOOLEAN : ClosePositionQuery(ok)
       \/ CloseAllReturn
       \/ \E m \in Markets, h \in AccountSizes : AccountChange(m, h)
    /\ UNCHANGED <<engine_vars, tracker_vars, balance_log, rt, pl>>

InitOrder == Init /\ positions = {}

SpecOrder == InitOrder /\ [][NextOrder]_vars

\* ------------------------------------------------- HyperliquidTracker.start
\* One action per stretch of start() between two awaits: a snapshot query of
\* one wallet, the sleep between two cycles.

\* the for loop moves on from position idx: to the next address, or out of
\* the loop (`out` is where start() is then)
Advance(idx, out) ==
    IF idx <= Len(wallet_addresses)
    THEN /\ tk_idx' = idx
         /\ tk_pc' = tk_pc
         /\ UNCHANGED tk_running
    ELSE /\ tk_idx' = 1
         /\ tk_pc' = out
         /\ UNCHANGED tk_running

\* start() with a loop that does not test the flag (`while True`)
M_LoopTest_forever(running) == "poll"

\* start(), line 79: `while self._running`, evaluated when the initial
\* snapshots are done and after every sleep
LoopTest(running) == IF running THEN "poll" ELSE "exited"

\* start(), line 66
TrackerStart ==
    /\ tk_pc = "new"
    /\ tk_running' = TRUE
    /\ tk_pc' = "init"
    /\ tk_idx' = 1
    /\ UNCHANGED <<last_states, last_poll, cycle>>

\* start(), lines 70-76 and the loop test of line 79 after the last address:
\* the initial snapshot of one wallet; `fetched` is NoState when the query raises
InitFetch(fetched) ==
    /\ tk_pc = "init"
    /\ LET address == wallet_addresses[tk_idx] IN
        /\ last_states' = IF fetched.has
                           THEN [last_states EXCEPT ![address] = fetched]
                           ELSE last_states
        /\ last_poll' = [kind |-> "init", address |-> address, ok |-> fetched.has,
                         old_state |-> last_states[address], new_state |-> fetched,
                         events |-> <<>>, raised_at |-> 0]
        /\ Advance(tk_idx + 1, LoopTest(tk_running))
        /\ UNCHANGED cycle

\* _poll_all_wallets storing the new snapshot before the events are handed on
M_Completed_before_events(fetched_ok, raised_at) == fetched_ok

\* _poll_all_wallets, line 109 is reached: the query returned and no
\* on_event call of line 107 raised
Completed(fetched_ok, raised_at) == fetched_ok /\ raised_at = 0

\* _poll_all_wallets, lines 96-112, one pass of the for loop: query, diff
\* against the baseline, hand the events to on_event, store the new baseline.
\* `fetched` is NoState when the query raises; `order` is the iteration order
\* of all_symbols; on_event raises on the event at `raised_at` (0: on none).
PollPass(fetched, order, raised_at) ==
    /\ LET address == wallet_addresses[tk_idx]
           old_state == last_states[address]
           events == IF fetched.has /\ Baseline(old_state)
                     THEN detect_changes(order, old_state, fetched, address)
                     ELSE <<>>
           completed == Completed(fetched.has, raised_at)
       IN
        /\ last_states' = IF completed
                           THEN [last_states EXCEPT ![address] = fetched]
                           ELSE last_states
        /\ last_poll' = [kind |-> "poll", address |-> address, ok |-> fetched.has,
                         old_state |-> old_state, new_state |-> fetched,
                         events |-> events, raised_at |-> raised_at]
        /\ cycle' = [cycle EXCEPT
                        !.queried = @ \cup {address},
                        !.failed = IF fetched.has THEN @ ELSE @ \cup {address}]
        /\ Advance(IF completed THEN tk_idx + 1 ELSE AfterFailure(tk_idx), "sleep")

PollWallet(fetched) ==
    /\ tk_pc = "poll"
    /\ LET old_state == last_states[wallet_addresses[tk_idx]]
           diffing == fetched.has /\ Baseline(old_state)
       IN  \E order \in Orders(IF diffing THEN all_symbols(old_state, fetched) ELSE {}) :
             \E raised_at \in 0..Len(IF diffing
                                      THEN detect_changes(order, old_state, fetched,
                                                          wallet_addresses[tk_idx])
                                      ELSE <<>>) :
                PollPass(fetched, order, raised_at)

\* start(), lines 82 and 87, then the loop test of line 79
Sleep ==
    /\ tk_pc = "sleep"
    /\ tk_pc' = LoopTest(tk_running)
    /\ cycle' = NewCycle(cycle.failed)
    /\ UNCHANGED <<tk_running, tk_idx, last_states, last_poll>>

\* stop()
TrackerStop ==
    /\ tk_running
    /\ tk_running' = FALSE
    /\ UNCHANGED <<tk_pc, tk_idx, last_states, last_poll, cycle>>

\* the task running start() is cancelled: CancelledError is raised at the
\* await start() is suspended in, and no handler of start() resumes the loop
TrackerCancel ==
    /\ tk_pc \in {"init", "poll", "sleep"}
    /\ tk_pc' = "exited"
    /\ UNCHANGED <<tk_running, tk_idx, last_states, last_poll, cycle>>

InitTracker ==
    /\ Init
    /\ positions = {}

NextTracker ==
    /\ \/ TrackerStart
       \/ \E fetched \in Snapshots(wallet_addresses[tk_idx]) \cup {NoState} :
              InitFetch(fetched)
       \/ \E fetched \in Snapshots(wallet_addresses[tk_idx]) \cup {NoState} :
              PollWallet(fetched)
       \/ Sleep
       \/ TrackerStop
       \/ TrackerCancel
    /\ UNCHANGED <<engine_vars, balance_log, rt, tr, pl>>

SpecTracker == InitTracker /\ [][NextTracker]_vars

\* start() run as a task that nobody cancels, on wallets that trade one
\* coin.  Every await of start() comes back: the snapshot query returns or
\* raises, the sleep ends; hence the weak fairness of its steps.
StopSnapshots(address) ==
    {st \in Snapshots(address) : DOMAIN st.pos = {"BTC"} /\ st.pos["BTC"] \in {0, 1}}

TrackerStep ==
    /\ \/ \E fetched \in StopSnapshots(wallet_addresses[tk_idx]) \cup {NoState} :
              InitFetch(fetched)
       \/ \E fetched \in StopSnapshots(wallet_addresses[tk_idx]) \cup {NoState} :
              PollWallet(fetched)
       \/ Sleep
    /\ UNCHANGED <<engine_vars, balance_log, rt, tr, pl>>

NextStop ==
    \/ TrackerStart /\ UNCHANGED <<engine_vars, balance_log, rt, tr, pl>>
    \/ TrackerStep
    \/ TrackerStop /\ UNCHANGED <<engine_vars, balance_log, rt, tr, pl>>

SpecStop == InitTracker /\ [][NextStop]_vars /\ WF_vars(TrackerStep)

\* ------------------------------------------ HyperTrack: tracker and handler
\* _start_tracker passes on_event=self._on_wallet_event, an `async def`.
\* _poll_all_wallets calls it as `self.on_event(event)`: calling a coroutine
\* function runs none of its body and returns a coroutine object; the call
\* is a statement of its own, the object is neither awaited nor made a
\* task, and is destroyed unstarted when the statement is over.  The call
\* itself does not raise.
Count(n, more) == Min(n + more, MaxHanded)

on_event(p, address, events) ==
    [p EXCEPT !.handed[address] = Count(@, Len(events)),
              !.never_awaited[address] = Count(@, Len(events)),
              !.expected = IF p.bot_running THEN Count(@, Len(events)) ELSE @]

\* the snapshots the wallets show in this specification
PipelineSnapshots(address) ==
    {s \in Snapshots(address) : \A c \in DOMAIN s.pos : c = "BTC" /\ s.pos[c] \in {0, 1}}

\* one pass of _poll_all_wallets with _on_wallet_event as on_event
PipelinePoll(fetched) ==
    /\ tk_pc = "poll"
    /\ LET old_state == last_states[wallet_addresses[tk_idx]]
           diffing == fetched.has /\ Baseline(old_state)
       IN  \E order \in Orders(IF diffing THEN all_symbols(old_state, fetched) ELSE {}) :
               PollPass(fetched, order, 0)
    /\ pl' = on_event(pl, last_poll'.address, last_poll'.events)

\* TelegramBot.start, run by the bot task
BotStart ==
    /\ pl.stage = "running"
    /\ ~pl.bot_running
    /\ pl' = [pl EXCEPT !.bot_running = TRUE]
    /\ UNCHANGED tracker_vars

\* HyperTrack.stop, lines 263-267: tracker.stop() when there is a tracker
StopTracker ==
    /\ pl.stage = "running"
    /\ pl' = [pl EXCEPT !.stage = "tracker_stopped"]
    /\ tk_running' = IF tk_pc # "new" THEN FALSE ELSE tk_running
    /\ UNCHANGED <<tk_pc, tk_idx, last_states, last_poll, cycle>>

\* HyperTrack.stop, lines 270-271: await bot.stop()
StopBot ==
    /\ pl.stage = "tracker_stopped"
    /\ pl' = [pl EXCEPT !.stage = "bot_stopped", !.bot_running = FALSE]
    /\ UNCHANGED tracker_vars

\* HyperTrack.stop, lines 274-275: await trader.close()
CloseTrader ==
    /\ pl.stage = "bot_stopped"
    /\ pl' = [pl EXCEPT !.stage = "trader_closed"]
    /\ UNCHANGED tracker_vars

\* HyperTrack.stop, lines 278-279: await db_manager.close()
CloseStore ==
    /\ pl.stage = "trader_closed"
    /\ pl' = [pl EXCEPT !.stage = "store_closed"]
    /\ UNCHANGED tracker_vars

\* HyperTrack.stop, lines 282-284: task.cancel() for every task not done;
\* the tracker's task gets CancelledError at the await it is suspended in
CancelTasks ==
    /\ pl.stage = "store_closed"
    /\ pl' = [pl EXCEPT !.stage = "cancelled",
                        !.aborted = IF tk_pc \in {"init", "poll", "sleep"} THEN tk_pc ELSE ""]
    /\ tk_pc' = "exited"
    /\ UNCHANGED <<tk_running, tk_idx, last_states, last_poll, cycle>>

InitPipeline == Init /\ positions = {}

NextPipeline ==
    /\ \/ TrackerStart /\ UNCHANGED pl
       \/ \E fetched \in PipelineSnapshots(wallet_addresses[tk_idx]) \cup {NoState} :
              InitFetch(fetched) /\ UNCHANGED pl
       \/ \E fetched \in PipelineSnapshots(wallet_addresses[tk_idx]) \cup {NoState} :
              PipelinePoll(fetched)
       \/ Sleep /\ UNCHANGED pl
       \/ BotStart
       \/ StopTracker
       \/ StopBot
       \/ CloseTrader
       \/ CloseStore
       \/ CancelTasks
    /\ UNCHANGED <<engine_vars, balance_log, rt, tr>>

SpecPipeline == InitPipeline /\ [][NextPipeline]_vars

\* ------------------------------------------- HyperTrack._on_wallet_event
\* The handler awaited with an event, one call at a time, with the store
\* failing at will and the bot starting and stopping.
HandlerEvents == {e \in Events : e.side = "LONG" /\ e.wallet_address = "0xb"}

\* _on_wallet_event(event) is awaited
HandlerCall(ev) ==
    /\ pl.h_pc = "idle"
    /\ task[1].pc = "idle"
    /\ pl' = [pl EXCEPT !.h_pc = "entered", !.h_ev = ev, !.sink = NoSink,
                        !.h_result = NoResult, !.h_raised = FALSE,
                        !.h_except = FALSE, !.h_down = FALSE]
    /\ UNCHANGED engine_vars

\* lines 159-170: notify_wallet_event when the bot runs, then the engine's
\* on_wallet_event is called
HandlerNotifyEvent ==
    /\ pl.h_pc = "entered"
    /\ pl' = [pl EXCEPT !.h_pc = "engine",
                        !.sink.events = IF pl.bot_running THEN @ + 1 ELSE @,
                        !.h_down = @ \/ ~pl.bot_running]
    /\ Call(1, pl.h_ev, 1)

\* a store query of the engine raises (the DatabaseManager methods log and
\* re-raise): should_follow's get_wallet and check_position_lock,
\* calculate_follow_size's get_wallet
StoreFault(t) ==
    /\ task[t].pc \in {"get_wallet", "check_lock", "size_wallet"}
    /\ Finish(t, OnException)
    /\ pl' = [pl EXCEPT !.h_raised = TRUE]
    /\ UNCHANGED <<wallets, positions, held, my_balance, balance_age>>

\* what lines 172-191 hand to the bot for the engine's result: FOLLOW is
\* notify_new_trade, ERROR notify_error with result.reason, an exception
\* out of the engine notify_error with its text; nothing for SKIP
Notified(sink, result) ==
    CASE result.decision = "FOLLOW" -> [sink EXCEPT !.trades = @ + 1]
      [] result.decision \in {"ERROR", "RAISED"} ->
            [sink EXCEPT !.errors = @ + 1, !.reason = result.reason]
      [] OTHER -> sink

\* lines 170-191: the engine has returned (or raised)
HandlerResult ==
    /\ pl.h_pc = "engine"
    /\ task[1].pc = "done"
    /\ pl' = [pl EXCEPT !.h_pc = "done",
                        !.h_result = task[1].result,
                        !.h_except = task[1].result.decision = "RAISED",
                        !.sink = IF pl.bot_running THEN Notified(@, task[1].result) ELSE @,
                        !.h_down = @ \/ ~pl.bot_running]
    /\ Return(1)

\* _on_wallet_event returns
HandlerReturn ==
    /\ pl.h_pc = "done"
    /\ pl' = [pl EXCEPT !.h_pc = "idle", !.h_ev = NoEvent, !.sink = NoSink,
                        !.h_result = NoResult, !.h_raised = FALSE,
                        !.h_except = FALSE, !.h_down = FALSE]
    /\ UNCHANGED engine_vars

\* TelegramBot.start / stop in their own tasks
BotFlip ==
    /\ pl' = [pl EXCEPT !.bot_running = ~@]
    /\ UNCHANGED engine_vars

InitHandler == Init /\ positions = {}

NextHandler ==
    /\ \/ \E ev \in HandlerEvents : HandlerCall(ev)
       \/ HandlerNotifyEvent
       \/ \E account_info \in AccountReplies : BalanceStep(1, account_info) /\ UNCHANGED pl
       \/ InnerStep(1) /\ UNCHANGED pl
       \/ StoreFault(1)
       \/ HandlerResult
       \/ HandlerReturn
       \/ BotFlip
       \/ Control /\ UNCHANGED pl
    /\ UNCHANGED <<tracker_vars, balance_log, rt, tr>>

SpecHandler == InitHandler /\ [][NextHandler]_vars

\* ----------------------------------------------------------------- claims
Done(t) == task[t].pc = "done"
RowsOf(store, symbol) == {p \in store : p.symbol = symbol}
\* the event's wallet is not the source wallet of row p of the event's symbol
LockedOut(t, p) ==
    /\ p.symbol = task[t].ev.symbol
    /\ p.source_wallet # Lower(task[t].ev.wallet_address)

Contending(t, u) ==
    /\ t # u /\ Done(t) /\ Done(u)
    /\ task[t].ev.event_type = "OPEN" /\ task[u].ev.event_type = "OPEN"
    /\ task[t].ev.symbol = task[u].ev.symbol
    /\ Lower(task[t].ev.wallet_address) # Lower(task[u].ev.wallet_address)
    /\ RowsOf(task[t].pre, task[t].ev.symbol) = {}
    /\ RowsOf(task[u].pre, task[u].ev.symbol) = {}
    /\ \A x \in {t, u} : \/ task[x].result.decision = "FOLLOW"
                         \/ task[x].result.reason = "locked"

C3_FailedOrderLeavesStore ==
    \A t \in Tasks : Done(t) /\ task[t].order_result = "failed" =>
        /\ task[t].result.decision = "ERROR"
        /\ task[t].result.reason = "order_failed"
        /\ positions = task[t].pre

\* the venue refused the close order of the lock holder
C3_Witness ==
    \E t \in Tasks :
        /\ Done(t)
        /\ task[t].order_result = "failed"
        /\ task[t].submitted = 1
        /\ IsClose(task[t].ev)
        /\ [symbol |-> task[t].ev.symbol,
            source_wallet |-> Lower(task[t].ev.wallet_address)] \in positions

\* C4: after FOLLOW for OPEN, INCREASE or DECREASE the table holds a row for
\* the symbol with the event's wallet as source; after FOLLOW for CLOSE or
\* FLIP it holds no row for the symbol
C4_FollowUpdatesStore ==
    \A t \in Tasks : Done(t) /\ task[t].result.decision = "FOLLOW" =>
        IF IsClose(task[t].ev)
        THEN RowsOf(positions, task[t].ev.symbol) = {}
        ELSE [symbol |-> task[t].ev.symbol,
              source_wallet |-> Lower(task[t].ev.wallet_address)] \in positions

\* the lock holder's CLOSE was followed with an order the venue filled
HolderCloseFollowed(t) ==
    /\ Done(t)
    /\ task[t].ev.event_type = "CLOSE"
    /\ task[t].result.decision = "FOLLOW"
    /\ [symbol |-> task[t].ev.symbol,
        source_wallet |-> Lower(task[t].ev.wallet_address)] \in task[t].pre

OldSize(symbol) == SizeIn(last_poll.old_state, symbol)
NewSize(symbol) == SizeIn(last_poll.new_state, symbol)
Polled == last_poll.kind = "poll"
EventsOf(symbol) == {i \in DOMAIN last_poll.events : last_poll.events[i].symbol = symbol}
Sign(x) == IF x > 0 THEN 1 ELSE IF x < 0 THEN -1 ELSE 0
Magnitude(x) == Sign(x) * x
SameSign(sign_old, sign_new) == sign_old # 0 /\ sign_old = sign_new
Opposite(sign_old, sign_new) == sign_old # 0 /\ sign_new # 0 /\ sign_old # sign_new

\* the classification table, on (sign(old), sign(new), |new| > |old|, |new| < |old|)
KindTable(sign_old, sign_new, grows, shrinks) ==
    CASE sign_old = 0 /\ sign_new # 0 -> "OPEN"
      [] sign_old # 0 /\ sign_new = 0 -> "CLOSE"
      [] Opposite(sign_old, sign_new) -> "FLIP"
      [] SameSign(sign_old, sign_new) /\ grows -> "INCREASE"
      [] SameSign(sign_old, sign_new) /\ shrinks -> "DECREASE"
      [] OTHER -> "none"

\* C6: the kind of every event the tracker computes from sizes old # new is
\* the table's entry for (sign(old), sign(new), |old| vs |new|): OPEN from
\* flat, CLOSE to flat, FLIP across signs, INCREASE or DECREASE within a sign.
C6_KindFollowsTable ==
    \A i \in DOMAIN last_poll.events :
        LET e == last_poll.events[i]
            old == OldSize(e.symbol)
            new == NewSize(e.symbol)
        IN  /\ old # new
            /\ e.event_type = KindTable(Sign(old), Sign(new),
                                        Magnitude(new) > Magnitude(old),
                                        Magnitude(new) < Magnitude(old))

\* a short position that grew was diffed
C6_Witness ==
    \E i \in DOMAIN last_poll.events :
        /\ last_poll.events[i].event_type = "INCREASE"
        /\ OldSize(last_poll.events[i].symbol) < 0
        /\ NewSize(last_poll.events[i].symbol) < OldSize(last_poll.events[i].symbol)

\* C7: every event's side is LONG when new > 0, SHORT when new < 0, the side
\* of old when new = 0; its size is |new|, so 0 for a CLOSE.
C7_SideAndSize ==
    \A i \in DOMAIN last_poll.events :
        LET e == last_poll.events[i]
            old == OldSize(e.symbol)
            new == NewSize(e.symbol)
        IN  /\ new > 0 => e.side = "LONG"
            /\ new < 0 => e.side = "SHORT"
            /\ new = 0 /\ old > 0 => e.side = "LONG"
            /\ new = 0 /\ old < 0 => e.side = "SHORT"
            /\ e.size = Magnitude(new)
            /\ e.event_type = "CLOSE" => e.size = 0

\* a long position was closed
C7_Witness ==
    \E i \in DOMAIN last_poll.events :
        /\ last_poll.events[i].event_type = "CLOSE"
        /\ OldSize(last_poll.events[i].symbol) > 0
        /\ last_poll.events[i].side = "LONG"
        /\ last_poll.events[i].size = 0

\* C8: one pass over a wallet computes at most one event per symbol, only for
\* symbols present in one of the two snapshots, and none for a symbol whose
\* size is the same in both, a missing symbol counting as size 0.
C8_AtMostOneEventPerSymbol ==
    Polled =>
        \A symbol \in Symbols :
            /\ Cardinality(EventsOf(symbol)) <= 1
            /\ OldSize(symbol) = NewSize(symbol) => EventsOf(symbol) = {}
            /\ symbol \notin all_symbols(last_poll.old_state, last_poll.new_state)
                  => EventsOf(symbol) = {}

\* BTC was missing from the baseline and is listed flat in the new snapshot,
\* while SOL changed
C8_Witness ==
    /\ Polled
    /\ last_poll.old_state.has
    /\ "BTC" \notin DOMAIN last_poll.old_state.pos
    /\ "BTC" \in DOMAIN last_poll.new_state.pos
    /\ NewSize("BTC") = 0
    /\ EventsOf("BTC") = {}
    /\ Cardinality(EventsOf("SOL")) = 1

\* the pass diffed the two snapshots: every symbol whose size changed has its event
Diffed ==
    \A symbol \in Symbols : OldSize(symbol) # NewSize(symbol) => EventsOf(symbol) # {}

\* C9: when a cycle ends every wallet of the list was queried in it, failures
\* of other wallets notwithstanding; a wallet queried after another one's
\* failure is diffed against its baseline; and the wallets that failed in
\* the cycle before were queried again.
C9_FailureDoesNotBlockOthers ==
    /\ tk_pc = "sleep" => cycle.queried = Tracked /\ cycle.retry \subseteq cycle.queried
    /\ (Polled /\ cycle.failed \ {last_poll.address} # {}
            /\ last_poll.ok /\ last_poll.old_state.has) => Diffed

\* the first wallet failed in two cycles running and the second one was
\* diffed, with an event, in the second of them
C9_Witness ==
    /\ tk_pc = "sleep"
    /\ cycle.retry = {"0xa"}
    /\ cycle.failed = {"0xa"}
    /\ last_poll.address = "0xb"
    /\ last_poll.ok
    /\ last_poll.events # <<>>

\* C10: a wallet whose initial fetch failed has no baseline; a pass over a
\* wallet without a baseline computes no event, and when its fetch succeeds it
\* stores the snapshot as the baseline; a pass over a wallet with a baseline
\* diffs.
C10_FirstFetchOnlySetsBaseline ==
    /\ (last_poll.kind = "init" /\ ~last_poll.ok) => ~last_states[last_poll.address].has
    /\ (Polled /\ ~last_poll.old_state.has) =>
            /\ last_poll.events = <<>>
            /\ last_poll.ok => last_states[last_poll.address] = last_poll.new_state
            /\ ~last_poll.ok => ~last_states[last_poll.address].has
    /\ (Polled /\ last_poll.ok /\ last_poll.old_state.has) => Diffed

\* the first successful fetch of a wallet found it holding BTC
C10_Witness ==
    /\ Polled
    /\ ~last_poll.old_state.has
    /\ last_poll.ok
    /\ NewSize("BTC") # 0
    /\ last_poll.events = <<>>
    /\ last_states[last_poll.address] = last_poll.new_state

\* ------------------------------------------------- engine claims, continued
Finishes(t) == task[t].pc # "done" /\ task'[t].pc = "done"
Reason(t) == task'[t].result.reason
BalanceUntouched == my_balance' = my_balance /\ balance_age' = balance_age
WalletUsable(address) == wallets[Lower(address)].present /\ wallets[Lower(address)].enabled
LockedFor(symbol, address) ==
    \E p \in positions : p.symbol = symbol /\ p.source_wallet # Lower(address)

\* C11: should_follow runs its checks in the order wallet, lock, balance,
\* event kind and stops at the first that fails: a check is reached only when
\* the ones before it passed, the reason returned is that of the check which
\* failed, and a call rejected by the wallet or the lock check has read no
\* lock, resp. refreshed no balance.
C11_ChecksInOrder ==
    [][\A t \in Tasks :
        /\ task'[t].pc = "check_lock" /\ task[t].pc # "check_lock"
              => task[t].pc = "get_wallet" /\ WalletUsable(task[t].ev.wallet_address)
        /\ task'[t].pc = "get_balance" /\ task[t].pc # "get_balance"
              => task[t].pc = "check_lock"
                 /\ ~LockedFor(task[t].ev.symbol, task[t].ev.wallet_address)
        /\ Finishes(t) /\ Reason(t) \in {"wallet_not_tracked", "wallet_disabled"}
              => /\ task[t].pc = "get_wallet"
                 /\ ~WalletUsable(task[t].ev.wallet_address)
                 /\ BalanceUntouched
        /\ Finishes(t) /\ Reason(t) = "locked"
              => /\ task[t].pc = "check_lock"
                 /\ LockedFor(task[t].ev.symbol, task[t].ev.wallet_address)
                 /\ BalanceUntouched
        /\ Finishes(t) /\ Reason(t) = "no_balance"
              => task[t].pc = "get_balance" /\ my_balance' <= 0
        /\ Finishes(t) /\ Reason(t) = "unknown_event"
              => /\ task[t].pc = "get_balance"
                 /\ my_balance' > 0
                 /\ task[t].ev.event_type = "UNKNOWN"
        /\ task[t].pc \in {"get_wallet", "check_lock", "get_balance"}
              /\ task'[t].pc = "done"
              => task'[t].result.decision = "SKIP"
      ]_vars

\* a call with an UNKNOWN event on a symbol another wallet holds, made while
\* the balance cache is expired, was rejected for the lock: the balance was
\* not refreshed
C11_Witness ==
    \E t \in Tasks :
        /\ Done(t)
        /\ task[t].result.reason = "locked"
        /\ task[t].ev.event_type = "UNKNOWN"
        /\ my_balance = 0
        /\ balance_age > BalanceCacheTicks

\* C12: the lock check passes when the table has no row for the symbol or
\* when the row's source wallet is the event's wallet up to letter case, and
\* otherwise rejects with a reason naming the row's source wallet; the
\* store's own check_position_lock gives the same verdict.
C12_LockVerdict ==
    [][\A t \in Tasks :
        task[t].pc = "check_lock" /\ task'[t].pc # "check_lock" =>
            LET symbol == task[t].ev.symbol
                address == task[t].ev.wallet_address
                rows == RowsOf(positions, symbol)
                passed == task'[t].pc = "get_balance"
                rejected == /\ task'[t].pc = "done"
                            /\ task'[t].result.decision = "SKIP"
                            /\ task'[t].result.reason = "locked"
            IN  /\ rows = {} => passed
                /\ (\E p \in rows : p.source_wallet = Lower(address)) => passed
                /\ \A p \in rows : p.source_wallet # Lower(address) =>
                        rejected /\ task'[t].result.holder = p.source_wallet
                /\ passed \/ rejected
                /\ \A existing \in get_position(positions, symbol) :
                        db_check_position_lock(existing, address) = passed
      ]_vars

\* an event carrying the holder's address in mixed case passed the lock check
C12_Witness ==
    \E t \in Tasks :
        /\ task[t].pc = "get_balance"
        /\ task[t].ev.wallet_address = "0xA"
        /\ [symbol |-> task[t].ev.symbol, source_wallet |-> "0xa"] \in positions

\* a call that sized an order for an OPEN or INCREASE event
SizedOpen(t) ==
    /\ task[t].ev.event_type \in {"OPEN", "INCREASE"}
    /\ task[t].pc \in {"order_price", "order_submit", "update_db", "done"}
    /\ task[t].follow_size > 0
\* max_position_usd of the wallet's row when set, else the default
CapOf(address) ==
    IF MaxPositionOf(Lower(address)) # 0 THEN MaxPositionOf(Lower(address))
    ELSE default_max_position_usd

SizedFromHeld(t, kinds) ==
    /\ task[t].ev.event_type \in kinds
    /\ task[t].pc \in {"close_positions", "order_price", "order_submit"}
    /\ task[t].submitted = 0
SizedNothing(t, kinds) ==
    /\ task[t].ev.event_type \in kinds
    /\ Done(t)
    /\ task[t].result.reason = "zero_size"

\* C14: for a DECREASE event the follow size is half of the size held on the
\* mirror venue for the symbol (held in units, follow size in halves of a
\* unit) and the side is the one that reduces it, SELL for a long and BUY for
\* a short; when nothing is held the size is 0.
C14_DecreaseSizing ==
    \A t \in Tasks :
        /\ SizedFromHeld(t, {"DECREASE"}) =>
              /\ task[t].ev.symbol \in MARKET_INDEX
              /\ held[task[t].ev.symbol] # 0
              /\ task[t].follow_size = Abs(held[task[t].ev.symbol])
              /\ held[task[t].ev.symbol] > 0 => task[t].follow_side = "SELL"
              /\ held[task[t].ev.symbol] < 0 => task[t].follow_side = "BUY"
        /\ SizedNothing(t, {"DECREASE"}) => task[t].follow_size = 0

\* a DECREASE arrived with one unit held long: SELL of half a unit
C14_Witness ==
    \E t \in Tasks :
        /\ SizedFromHeld(t, {"DECREASE"})
        /\ held["BTC"] = 1
        /\ task[t].follow_size = 1
        /\ task[t].follow_side = "SELL"

\* C15: for a CLOSE or FLIP event the follow size is the whole size held for
\* the symbol (held in units, follow size in halves of a unit) on the side
\* that closes it, 0 when nothing is held; the one order a FLIP call sends
\* is a reduce-only order on the closing side, after which nothing is held:
\* no position is opened on the opposite side.
C15_CloseSizing ==
    \A t \in Tasks :
        /\ SizedFromHeld(t, {"CLOSE", "FLIP"}) =>
              /\ task[t].ev.symbol \in MARKET_INDEX
              /\ held[task[t].ev.symbol] # 0
              /\ task[t].follow_size = 2 * Abs(held[task[t].ev.symbol])
              /\ held[task[t].ev.symbol] > 0 => task[t].follow_side = "SELL"
              /\ held[task[t].ev.symbol] < 0 => task[t].follow_side = "BUY"
        /\ SizedNothing(t, {"CLOSE", "FLIP"}) => task[t].follow_size = 0
        /\ task[t].ev.event_type = "FLIP" /\ task[t].pc = "order_submit" =>
              /\ task[t].order.reduce_only
              /\ task[t].order.side = ClosingSide(held[task[t].ev.symbol])
              /\ task[t].order.amount = Abs(held[task[t].ev.symbol])
        /\ task[t].ev.event_type = "FLIP" /\ task[t].submitted = 1
              /\ task[t].order_result = "ok" => held[task[t].ev.symbol] = 0

\* a FLIP was followed by closing the unit held
C15_Witness ==
    \E t \in Tasks :
        /\ Done(t)
        /\ task[t].ev.event_type = "FLIP"
        /\ task[t].result.decision = "FOLLOW"
        /\ task[t].submitted = 1
        /\ task[t].result.follow_size = 2
        /\ held["BTC"] = 0

\* execute_follow was entered: the call is in close_position or
\* place_market_order, or one of them has returned
OrderCalled(t) ==
    \/ task[t].pc \in {"close_positions", "order_price", "order_submit", "update_db"}
    \/ task[t].order_result # "none"
    \/ task[t].submitted # 0

\* C16: a call whose sizing gave a size <= 0, or found no price for the
\* symbol, ends in SKIP with the reason of the sizing and without
\* close_position or place_market_order being called; an order is only ever
\* attempted with a size > 0, computed for OPEN and INCREASE from a price.
C16_NoOrderWithoutSize ==
    \A t \in Tasks :
        /\ OrderCalled(t) =>
              /\ task[t].follow_size > 0
              /\ task[t].ev.event_type \in {"OPEN", "INCREASE"} =>
                    task[t].price > 0 /\ task[t].usd > 0
        /\ Done(t) /\ task[t].result.reason = "zero_size" =>
              /\ task[t].result.decision = "SKIP"
              /\ ~OrderCalled(t)
              /\ task[t].follow_size = 0
        /\ Done(t) /\ task[t].follow_size = 0 => task[t].result.decision # "FOLLOW"

\* an OPEN of a mapped symbol with a notional of 50 found no price: SKIP
C16_Witness ==
    \E t \in Tasks :
        /\ Done(t)
        /\ task[t].ev.event_type = "OPEN"
        /\ task[t].ev.symbol = "BTC"
        /\ task[t].usd = 50
        /\ task[t].price = 0
        /\ task[t].result.decision = "SKIP"
        /\ task[t].result.reason = "zero_size"
        /\ task[t].submitted = 0

\* ------------------------------------------------------ balance cache claims
\* C17: while the cached balance is no older than the cache interval no
\* _get_my_balance call queries the venue: the cached value and the record
\* of the latest refresh stay as they are, and the call is served from the
\* cache.
C17_OncePerInterval ==
    [][balance_age <= BalanceCacheTicks =>
            /\ my_balance' = my_balance
            /\ balance_log'.last = balance_log.last
            /\ balance_log'.before = balance_log.before
            /\ balance_log'.hits >= balance_log.hits
            /\ balance_age' \in {balance_age, balance_age + 1}
      ]_vars

\* two calls of _get_my_balance were served from the cache after a refresh
\* that succeeded, the second a tick after it
C17_Witness ==
    /\ balance_log.last = "ok"
    /\ balance_log.hits = 2
    /\ my_balance = 1000
    /\ balance_age = BalanceCacheTicks

\* C18: after a refresh that failed the engine still holds the balance it
\* had before, and no call is rejected for want of balance when that balance
\* was positive.
C18_FailedRefreshKeepsBalance ==
    /\ balance_log.last = "failed" => my_balance = balance_log.before
    /\ \A t \in Tasks :
          Done(t) /\ task[t].result.reason = "no_balance"
              => ~(balance_log.last = "failed" /\ balance_log.before > 0)

\* -------------------------------------------------------------- retry claims
\* C19: an operation that fails on every attempt is invoked exactly
\* max_retries times, with a delay after every attempt but the last, and
\* _retry_operation then raises; one that succeeds on attempt k is invoked
\* exactly k times, after k - 1 delays, and its result is returned.
C19_BoundedRetry ==
    /\ rt.calls <= rt.n
    /\ rt.pc = "raised" =>
          rt.calls = rt.n /\ rt.sleeps = rt.n - 1 /\ rt.last_error = rt.n
    /\ rt.pc = "returned" =>
          /\ rt.calls = rt.attempt
          /\ rt.calls <= rt.n
          /\ rt.sleeps = rt.calls - 1
          /\ rt.reply \in Replies(rt.op)
    /\ rt.pc = "sleep" => rt.calls < rt.n /\ rt.sleeps = rt.calls - 1
    /\ rt.pc = "attempt" => rt.calls = rt.attempt - 1 /\ rt.sleeps = rt.calls

\* with max_retries = 5 an operation failed five times and the error was raised
C19_Witness ==
    /\ rt.pc = "raised"
    /\ rt.n = max_retries
    /\ rt.calls = max_retries
    /\ rt.sleeps = max_retries - 1
    /\ rt.last_error = max_retries

\* C20: when every attempt of the remote call failed, what the public
\* operation hands to its caller is an error (a raised exception, or a
\* result that says it failed), not a result of its normal kind.
C20_FailureReachesCaller ==
    rt.pc = "done" /\ rt.exhausted => rt.outcome.shape \in {"exception", "error_result", "none"}

\* -------------------------------------------------------------- order claims
\* C21: the limit price of every order handed to the venue is the current
\* price p adjusted by the slippage s: p x (1 + s) truncated and at least p
\* for a BUY, p x (1 - s) truncated and at most p for a SELL.  (Prices in
\* halves of a unit, s in percent.)
C21_SlippageInFillingDirection ==
    tr.order.submitted =>
        LET o == tr.order
        IN  /\ o.side = "BUY" =>
                  /\ 200 * o.execution_price <= o.price2 * (100 + o.max_slippage)
                  /\ 200 * (o.execution_price + 1) > o.price2 * (100 + o.max_slippage)
                  /\ 2 * o.execution_price >= o.price2
            /\ o.side = "SELL" =>
                  /\ 200 * o.execution_price <= o.price2 * (100 - o.max_slippage)
                  /\ 200 * (o.execution_price + 1) > o.price2 * (100 - o.max_slippage)
                  /\ 2 * o.execution_price <= o.price2

\* C22: the client order index of every order handed to the venue is
\* greater than that of every order handed to it before.
C22_IndexesIncrease ==
    \A i, j \in DOMAIN tr.indexes : i < j => tr.indexes[i] < tr.indexes[j]

\* two orders went out, and between them a call took an index and then
\* found no price
C22_Witness ==
    /\ Len(tr.indexes) >= 2
    /\ tr.indexes[2] = tr.indexes[1] + 2

\* the symbols of the positions the account held when close_all_positions
\* was called
HeldSymbols == {get_symbol_by_market_index(m) : m \in {n \in Markets : tr.pre[n] # 0}}

\* C23: close_all_positions returns one result for each symbol held when it
\* was called and for no other, having made one close_position call per
\* symbol; on an account without positions it returns no result and hands no
\* order to the venue.
C23_OneResultPerHeldSymbol ==
    tr.pc = "ca_done" =>
        /\ {r.symbol : r \in tr.results} = HeldSymbols
        /\ Cardinality(tr.results) = Cardinality(HeldSymbols)
        /\ tr.closes = Cardinality(HeldSymbols)
        /\ HeldSymbols = {} => tr.results = {} /\ tr.orders = 0

\* ----------------------------------------------------------- pipeline claims
\* the events of a wallet whose handler ran: those handed to on_event less
\* those whose coroutine was destroyed unstarted
Consumed(address) == pl.handed[address] - pl.never_awaited[address]

\* C24: when a polling cycle comes to a wallet, every event emitted for that
\* wallet before has been handled by the decision engine.
C24_HandledBeforeNextPoll ==
    tk_pc = "poll" =>
        Consumed(wallet_addresses[tk_idx]) = pl.handed[wallet_addresses[tk_idx]]

\* C25: no event the tracker emitted is dropped: none of the handler's
\* coroutines is destroyed without having run.
C25_NoEventDropped ==
    \A a \in Tracked : pl.never_awaited[a] = 0

\* C26: the execution client and the store are closed, and the tasks
\* cancelled, only when the tracker is between two cycles or has left its
\* loop: not while a snapshot query is awaited, and no cycle is cancelled in
\* such an await.
C26_StopBetweenCycles ==
    /\ pl.stage \in {"trader_closed", "store_closed"} => tk_pc \notin {"init", "poll"}
    /\ pl.aborted \notin {"init", "poll"}

\* C27: at the end of a polling cycle the bot has been given one
\* notify_wallet_event for every event emitted while it was running.
C27_OneMessagePerEvent ==
    tk_pc = "sleep" => pl.sink.events = pl.expected

\* C28: when the handler is done with an event whose FollowResult is SKIP or
\* ERROR, the result has a reason and, the bot running, the bot was given
\* that reason.
C28_ReasonReachesSink ==
    (/\ pl.h_pc = "done"
     /\ ~pl.h_down
     /\ pl.h_result.decision \in {"SKIP", "ERROR"})
    => /\ pl.h_result.reason # ""
       /\ pl.sink.errors = 1
       /\ pl.sink.reason = pl.h_result.reason

C30_UnmappedSymbolIsError ==
    \A t \in Tasks :
        (/\ Done(t)
         /\ task[t].ev.event_type \in {"OPEN", "INCREASE"}
         /\ task[t].ev.symbol \notin MARKET_INDEX
         /\ task[t].usd > 0)
        => task[t].result.decision = "ERROR"

\* ------------------------------------------------- engine claims, last part
\* the reasons of the SKIPs should_follow decides
ConfigReasons == {"wallet_not_tracked", "wallet_disabled", "locked",
                  "no_balance", "unknown_event"}

\* C31: a call that meets a configuration or state condition (wallet unknown
\* or disabled, symbol locked by another wallet, zero balance, UNKNOWN kind)
\* returns SKIP from that check, taken once, and when it returns SKIP for one
\* of these reasons no order was called for or sent, the venue holds what it
\* held and the positions table is what it was when the call began.
C31_SkipHasNoEffect ==
    [][\A t \in Tasks :
        /\ Finishes(t) /\ Reason(t) \in ConfigReasons =>
              /\ task'[t].result.decision = "SKIP"
              /\ task[t].pc \in {"get_wallet", "check_lock", "get_balance"}
              /\ task'[t].submitted = 0
              /\ task'[t].order_result = "none"
              /\ task'[t].order = NoOrder
              /\ held' = held
              /\ positions' = positions
              /\ positions' = task[t].pre
        /\ task[t].pc = "get_wallet" /\ task'[t] # task[t]
              /\ ~WalletUsable(task[t].ev.wallet_address)
              => Finishes(t) /\ Reason(t) \in {"wallet_not_tracked", "wallet_disabled"}
        /\ task[t].pc = "check_lock" /\ task'[t] # task[t]
              /\ LockedFor(task[t].ev.symbol, task[t].ev.wallet_address)
              => Finishes(t) /\ Reason(t) = "locked"
        /\ task[t].pc = "get_balance" /\ task'[t] # task[t]
              /\ (my_balance' <= 0 \/ task[t].ev.event_type = "UNKNOWN")
              => Finishes(t) /\ Reason(t) \in {"no_balance", "unknown_event"}
      ]_vars

\* the CLOSE of the lock holder arrived after its wallet was disabled, with a
\* unit held on the venue: SKIP, the unit and the row are still there
C31_Witness ==
    \E t \in Tasks :
        /\ Done(t)
        /\ task[t].ev.event_type = "CLOSE"
        /\ task[t].result.decision = "SKIP"
        /\ task[t].result.reason = "wallet_disabled"
        /\ task[t].ev.symbol \in MARKET_INDEX
        /\ held[task[t].ev.symbol] # 0
        /\ [symbol |-> task[t].ev.symbol,
            source_wallet |-> Lower(task[t].ev.wallet_address)] \in positions
        /\ task[t].submitted = 0

\* the position the account held in the symbol's market when the operation
\* was called, 0 for a symbol that is none of its markets'
HeldBefore(symbol) ==
    IF \E m \in Markets : get_symbol_by_market_index(m) = symbol
    THEN tr.pre[CHOOSE m \in Markets : get_symbol_by_market_index(m) = symbol]
    ELSE 0

\* C32: close_position for a symbol without a position returns success, hands
\* no order to the venue and leaves the account as it was (so a second call
\* does what the first did); with a position it calls place_market_order once,
\* reduce-only, for the full size held, on the closing side, at most one order
\* reaches the venue, and success means that one order was taken.
C32_CloseIsIdempotent ==
    (tr.caller = "close_position" /\ tr.pc = "pm_done") =>
        LET h == HeldBefore(tr.order.symbol)
        IN  /\ h = 0 => /\ tr.order_result = "ok"
                        /\ tr.orders = 0
                        /\ tr.account = tr.pre
            /\ h # 0 => /\ tr.order.reduce_only
                        /\ tr.order.amount = Abs(h)
                        /\ tr.order.side = ClosingSide(h)
                        /\ tr.orders <= 1
                        /\ tr.order_result = "ok" => tr.orders = 1

\* ------------------------------------------------- tracker claims, last part
\* C33: once stop() has been called on a started tracker, start() returns:
\* no polling cycle begins while the flag is off (a cycle in progress is
\* finished), the sleep that follows is the last, and the loop is left.
C33_StopEndsLoop ==
    /\ [][/\ (~tk_running /\ tk_pc # "new" /\ tk_pc' = "poll") => tk_pc = "poll"
          /\ (~tk_running /\ tk_pc = "sleep") => tk_pc' \in {"sleep", "exited"}
          /\ tk_pc = "exited" => tk_pc' = "exited"]_vars
    /\ (~tk_running /\ tk_pc # "new") ~> (tk_pc = "exited")

\* stop() came in the middle of a polling cycle: the cycle was finished
\* (the second wallet was polled with the flag off) and start() has returned
C33_Witness ==
    /\ tk_pc = "exited"
    /\ ~tk_running
    /\ last_poll.kind = "poll"
    /\ last_poll.address = wallet_addresses[Len(wallet_addresses)]
    /\ last_poll.ok

\* C34: no event the tracker emits has kind UNKNOWN: an event is built only
\* for two different signed sizes, and for every such pair
\* _determine_event_type gives OPEN, CLOSE, FLIP, INCREASE or DECREASE.
C34_NeverUnknown ==
    /\ \A i \in DOMAIN last_poll.events :
          /\ last_poll.events[i].event_type
                \in {"OPEN", "CLOSE", "FLIP", "INCREASE", "DECREASE"}
          /\ SizeIn(last_poll.old_state, last_poll.events[i].symbol)
                # SizeIn(last_poll.new_state, last_poll.events[i].symbol)
    /\ \A old_size, new_size \in Sizes :
          Changed(old_size, new_size) =>
              determine_event_type(old_size, new_size) # "UNKNOWN"

\* a short position grew from 1 to 2 (the signed size fell): INCREASE
C34_Witness ==
    /\ last_poll.kind = "poll"
    /\ SizeIn(last_poll.old_state, "BTC") = -1
    /\ SizeIn(last_poll.new_state, "BTC") = -2
    /\ \E i \in DOMAIN last_poll.events :
          /\ last_poll.events[i].symbol = "BTC"
          /\ last_poll.events[i].event_type = "INCREASE"

\* C35: the retained snapshot of a wallet changes only in a pass over that
\* wallet whose query returned and whose events were all handed to on_event
\* without a raise, and then to the snapshot fetched; a pass whose query or
\* callback raised leaves every retained snapshot as it was; a pass whose
\* query returned diffs against the retained snapshot, with an event for
\* every symbol whose size differs from the retained one.
C35_SnapshotKeptOnFailure ==
    [][/\ \A a \in Tracked :
            last_states'[a] # last_states[a] =>
                /\ last_poll'.address = a
                /\ last_poll'.ok
                /\ last_poll'.raised_at = 0
                /\ last_states'[a] = last_poll'.new_state
       /\ (last_poll' # last_poll /\ (~last_poll'.ok \/ last_poll'.raised_at # 0))
             => last_states' = last_states
       /\ (last_poll' # last_poll /\ last_poll'.kind = "poll" /\ last_poll'.ok) =>
             /\ last_poll'.old_state = last_states[last_poll'.address]
             /\ last_poll'.old_state.has =>
                   \A symbol \in Symbols :
                       SizeIn(last_states[last_poll'.address], symbol)
                           # SizeIn(last_poll'.new_state, symbol)
                       => \E i \in DOMAIN last_poll'.events :
                              last_poll'.events[i].symbol = symbol
      ]_vars

\* the poll of a wallet whose query failed in the cycle before reported a
\* change against the snapshot retained, and the snapshot was replaced
C35_Witness ==
    /\ last_poll.kind = "poll"
    /\ last_poll.ok
    /\ last_poll.address \in cycle.retry
    /\ last_poll.raised_at = 0
    /\ last_poll.events # <<>>
    /\ last_poll.old_state.has
    /\ last_states[last_poll.address] = last_poll.new_state

\* ------------------------------------------------- engine claims, the races
\* C36 as claimed: a call that passed should_follow and whose wallet was
\* then disabled or deleted, before the sizing or before the execution,
\* sends no order, ends in SKIP or ERROR and leaves the positions table alone.
C36_WalletGoneStopsDecision ==
    \A t \in Tasks :
        (/\ Done(t)
         /\ ~WalletUsable(task[t].ev.wallet_address)
         /\ task[t].result.reason \notin {"wallet_not_tracked", "wallet_disabled"})
        => /\ task[t].submitted = 0
           /\ task[t].result.decision \in {"SKIP", "ERROR"}
           /\ positions = task[t].pre

\* C36, amended: the only read of the wallet after should_follow is the one
\* of calculate_follow_size (OPEN and INCREASE events).  When the row is gone
\* at that read the call ends in ERROR, with no order called for or sent and
\* the venue and the positions table as they were; when the row is there the
\* sizing goes on, whether the wallet is enabled or not.
C36_DeletedBeforeSizingIsError ==
    [][\A t \in Tasks :
        (task[t].pc = "size_wallet" /\ task'[t] # task[t]) =>
            IF get_wallet(task[t].ev.wallet_address).present
            THEN task'[t].pc = "size_price"
            ELSE /\ Finishes(t)
                 /\ task[t].ev.event_type \in {"OPEN", "INCREASE"}
                 /\ task'[t].result.decision = "ERROR"
                 /\ task'[t].submitted = 0
                 /\ task'[t].order_result = "none"
                 /\ held' = held
                 /\ positions' = task[t].pre
      ]_vars

\* the wallet of an OPEN was deleted between should_follow and the sizing
C36_Witness ==
    \E t \in Tasks :
        /\ Done(t)
        /\ task[t].ev.event_type = "OPEN"
        /\ ~get_wallet(task[t].ev.wallet_address).present
        /\ task[t].result.decision = "ERROR"
        /\ task[t].result.reason = "exception"
        /\ task[t].submitted = 0
        /\ positions = task[t].pre

\* C37: a call for a CLOSE or FLIP event returns FOLLOW, or changes the
\* positions table, only when it handed a reduce-only order to the venue and
\* the venue took it.
C37_CloseFollowNeedsFill ==
    \A t \in Tasks :
        (/\ Done(t)
         /\ IsClose(task[t].ev)
         /\ \/ task[t].result.decision = "FOLLOW"
            \/ positions # task[t].pre)
        => /\ task[t].submitted = 1
           /\ task[t].order_result = "ok"
           /\ task[t].order.reduce_only

\* C38: after FOLLOW for an INCREASE or DECREASE event of the wallet that
\* held the symbol's row, the table has a row for the symbol with that wallet
\* as source, whose side is that of the position held on the venue and whose
\* size is the size held.
C38_RecordMatchesHeld ==
    \A t \in Tasks :
        (/\ Done(t)
         /\ task[t].ev.event_type \in {"INCREASE", "DECREASE"}
         /\ task[t].result.decision = "FOLLOW"
         /\ \E p \in task[t].pre : /\ p.symbol = task[t].ev.symbol
                                   /\ p.source_wallet = Lower(task[t].ev.wallet_address))
        => \E p \in positions :
              /\ p.symbol = task[t].ev.symbol
              /\ p.source_wallet = Lower(task[t].ev.wallet_address)
              /\ held[p.symbol] # 0
              /\ p.side = (IF held[p.symbol] > 0 THEN "LONG" ELSE "SHORT")
              /\ p.size = Abs(held[p.symbol])

\* C39: every FollowResult on_wallet_event returns has decision FOLLOW, SKIP
\* or ERROR, never REJECT; a FOLLOW result carries a follow size > 0, a follow
\* side and the OrderResult of the execution client, whose success is true;
\* the size and the side are those the call computed.
C39_FollowResultShape ==
    \A t \in Tasks : Done(t) =>
        /\ task[t].result.decision \in {"FOLLOW", "SKIP", "ERROR"}
        /\ task[t].result.decision = "FOLLOW" =>
              /\ task[t].result.has_params
              /\ task[t].result.follow_size > 0
              /\ task[t].result.follow_size = task[t].follow_size
              /\ task[t].result.follow_side \in {"BUY", "SELL"}
              /\ task[t].result.follow_side = task[t].follow_side
              /\ task[t].result.order_result = "ok"
              /\ task[t].order_result = "ok"

\* the CLOSE of a short position was followed: BUY of the unit held
C39_Witness ==
    \E t \in Tasks :
        /\ Done(t)
        /\ task[t].ev.event_type = "CLOSE"
        /\ task[t].result.decision = "FOLLOW"
        /\ task[t].result.follow_side = "BUY"
        /\ task[t].result.follow_size = 2
        /\ task[t].submitted = 1
        /\ task[t].order_result = "ok"

\* the call for a CLOSE event of the wallet that held the symbol's row when
\* the call began passed should_follow and has come to its result
HolderCloseHandled(symbol, w) ==
    \E t \in Tasks :
        /\ Done(t)
        /\ task[t].ev.event_type = "CLOSE"
        /\ task[t].ev.symbol = symbol
        /\ Lower(task[t].ev.wallet_address) = w
        /\ [symbol |-> symbol, source_wallet |-> w] \in task[t].pre
        /\ task[t].result.reason \notin ConfigReasons

\* C40: once the lock holder's CLOSE for a symbol has been handled, whatever
\* the decision, the symbol's row eventually goes and the symbol is open to
\* the other wallets.
C40_CloseEventuallyUnlocks ==
    \A symbol \in Symbols, w \in Wallets :
        HolderCloseHandled(symbol, w) ~> (RowsOf(positions, symbol) = {})

====
